---------------------------- MODULE Spec2Model ----------------------------
(*
  Verification model of the ingestion pipeline of the Reidin data importers:
  the bounded hand-off queue between fetch workers and flush workers, the
  shutdown protocol, the bulk upsert strategy and the resume filter.

  Three importers share the pipeline pattern with small variations and are
  modelled side by side (the variable `importer` selects the variant):
    "cma_sales"         src/src/src extract/import_cma_sales.py
    "transactions_avg"  src/src/src extract/import_transactions_avg.py
    "cma"               src/src/src extract/import_cma.py
*)
EXTENDS Integers, Sequences, FiniteSets, TLC

\* ------------------------------------------------------------------ bounds
QueueMaxsize == 1      \* Queue(maxsize=...), scaled down
BatchSize == 2         \* batch_size, scaled down
RequeueChunkSize == 1  \* the 100 of min(100, len(buffer)), scaled down
RecsPerTask == 2       \* most records one work item yields
MaxWorkers == 2        \* max_workers, scaled down
MaxDbFailures == 2     \* how often the destination store may fail in a run

Importers == {"cma_sales", "transactions_avg", "cma"}
Flushers == {"Flusher-1", "Flusher-2"}   \* the flusher threads, scaled down
Tasks == {"task-1", "task-2"}            \* the work items of the run
NumFlushers == Cardinality(Flushers)

VARIABLES
  importer,          \* which importer runs
  data_queue,        \* the ingestion queue: a sequence of items
  task,              \* task -> [pc, left]: a fetch task and the records it still has to enqueue
  fpc,               \* flusher -> position in _flusher_worker
  buffer,            \* flusher -> its private buffer (a sequence of records)
  fafter,            \* flusher -> where _flusher_worker continues after the current flush
  chunks,            \* flusher -> chunks of a failed batch still to be re-queued
  processing_complete, \* CMASalesImporter.processing_complete
  opc,               \* the orchestrator's position
  pill_attempts,     \* iterations of the poison-pill loop done
  pills_sent,        \* poison pills actually enqueued
  total_records_inserted,
  total_batches_flushed,
  db_failures,       \* failures of the destination store so far
  dropped_enqueue,   \* records a fetch worker discarded at enqueue time (queue full)
  dropped_requeue,   \* records a flush worker discarded when re-queuing (queue full)
  unflushed,         \* flusher -> records it dequeued that had no flush attempt yet
  got_pill,          \* flusher -> it received the poison pill
  exit_flush         \* flusher -> records it handed to the flush made on leaving the loop

pipeVars == <<importer, data_queue, task, fpc, buffer, fafter, chunks,
              processing_complete, opc, pill_attempts, pills_sent,
              total_records_inserted, total_batches_flushed, db_failures,
              dropped_enqueue, dropped_requeue, unflushed, got_pill, exit_flush>>

\* -- the destination store under the bulk upsert strategy (utils/database.py)
VARIABLES
  entity,            \* which table is loaded, by which insert method
  records,           \* the records of the work items (the same on every pass)
  table,             \* the destination table: row -> number of copies
  pass,              \* 1 for the first run over the work items, 2 for a re-run, ...
  todo,              \* records of this pass not yet handed to the insert method
  start_table,       \* the table when this pass began
  interrupted,       \* some pass was cut short before all its records were handed over
  last_op            \* what the last call of the insert method did

upsertVars == <<entity, records, table, pass, todo, start_table, interrupted, last_op>>

\* -- resuming a run: the work items and the resume filter of the importers
VARIABLES
  rimporter,         \* which importer's resume filter is run
  upstream,          \* work item -> the no_of_bedrooms values of the data the API has for it
  rstore,            \* the rows persisted so far
  rtasks,            \* the work items of the current run not yet processed
  rphase,            \* "running", "interrupted" or "done"
  run_no,            \* 1 for the first run, 2 for the resumed run
  skipped,           \* the work items the resume filter removed
  store_at_filter    \* the rows the resume filter saw

resumeVars == <<rimporter, upstream, rstore, rtasks, rphase, run_no, skipped,
                store_at_filter>>

\* -- task generation: the work items of a run
VARIABLES
  gimporter,         \* whose task generation runs
  gunits,            \* the units read from the database, in order
  gtypes,            \* the first dimension (property_types), in order
  gseconds,          \* the second dimension (activity types / subtypes), in order
  gcap,              \* max_combinations / max_combinations_per_property
  gtasks,            \* the task list of the first generation
  gtasks2,           \* the task list of a second generation over the same inputs
  gphase             \* how many generations were made

genVars == <<gimporter, gunits, gtypes, gseconds, gcap, gtasks, gtasks2, gphase>>

\* -- AdaptiveRateLimiter of the transaction-rent importer
VARIABLES
  current_rate,      \* requests per second, in thousandths
  due,               \* time.time() - last_adjustment > adjustment_interval
  timeout_errors,    \* entries of the timeout deque younger than 120 s
  success_requests,  \* len(self.success_requests)
  total_requests,    \* lifetime counter
  total_429_errors,  \* lifetime counter
  apc,               \* per worker thread: where it is in adjust_rate
  record_calls,      \* record_request bursts so far
  adjusts,           \* adjustments applied so far
  successes_recent,  \* history: successes of the deque younger than 120 s
  prev_rate,         \* history: current_rate before the last adjustment
  adj_stats,         \* history: the outcome counts the last adjustment saw
  applied_in_interval \* history: adjustments applied since an interval last elapsed

rateVars == <<current_rate, due, timeout_errors, success_requests, total_requests,
              total_429_errors, apc, record_calls, adjusts, successes_recent,
              prev_rate, adj_stats, applied_in_interval>>

\* -- the pacing gate in front of the API requests
VARIABLES
  gate_importer,     \* whose gate it is
  now,               \* time.time(), in ticks
  gate_lock,         \* the holder of _RateLimiter._lock, or "none"
  gate_sem,          \* free permits of the rate_limiter semaphore
  wpc,               \* per fetch worker: where it is
  wake_at,           \* per fetch worker: when its time.sleep may return
  next_allowed_time, \* _RateLimiter._next_allowed_time
  last_request_time, \* CMAImporter.last_request_time
  grants,            \* history: the times at which the gate let a worker pass
  passes,            \* history: per worker, how often it passed the gate
  issued             \* history: per worker, how many requests it issued

gateVars == <<gate_importer, now, gate_lock, gate_sem, wpc, wake_at,
              next_allowed_time, last_request_time, grants, passes, issued>>

\* -- pagination of one work item
VARIABLES
  pimporter,         \* whose pagination loop runs
  pages,             \* what the API answers to the 1st, 2nd, ... request
  dry_run,           \* the dry_run option
  page_no,           \* requests issued so far for the work item
  ploop,             \* "running" or "done"
  total_records,     \* the records counted
  first_empty        \* history: the request that was first answered by an
                     \* empty page, 0 if none

pageVars == <<pimporter, pages, dry_run, page_no, ploop, total_records, first_empty>>

\* -- submission of the work items to the fetch pool and the run's tallies
VARIABLES
  simporter,         \* whose run it is
  stask,             \* per work item: "new", "queued", "running", "ended"
  api_failed,        \* history: per work item, its API call failed
  task_semaphore,    \* free permits of self.task_semaphore
  permit_held,       \* history: per work item, it holds a permit
  releases,          \* history: per work item, releases of its permit
  tally,             \* history: per work item, how the run counted it
  successful_tasks,  \* the run's succeeded tally
  failed_tasks,      \* the run's failed tally
  sphase,            \* "submitting", "collecting", "closing", "done"
  batch_start,       \* the first work item of the batch in hand
  sub_next,          \* the work item the submission loop hands over next
  submits,           \* history: per work item, times it was submitted
  executions,        \* history: per work item, times a pool thread took it
  task_return,       \* per work item: the record count its worker returned
  records_put,       \* history: records actually put on the queue
  total_records_processed  \* the run's "Total records processed"

subVars == <<simporter, stask, api_failed, task_semaphore, permit_held, releases,
             tally, successful_tasks, failed_tasks, sphase, batch_start,
             sub_next, submits, executions, task_return, records_put,
             total_records_processed>>

\* -- a whole run of the transaction-rent importer, and the dry-run exits
VARIABLES
  run_importer,      \* whose run it is
  run_dry_run,       \* the dry_run option
  run_phase,         \* "start", "collecting", "final_insert", "report", "done",
                     \* "returned" (left before any work), "aborted"
  run_item,          \* per work item: "pending", "ok", "failed", "raised"
  all_accumulated_data, \* records accumulated for the next insert
  run_stored,        \* records in the destination store
  run_writes,        \* history: destination write calls
  run_transformed,   \* history: the work items whose answer was transformed
  total_successful_requests,
  total_failed_requests

runVars == <<run_importer, run_dry_run, run_phase, run_item, all_accumulated_data,
             run_stored, run_writes, run_transformed, total_successful_requests,
             total_failed_requests>>

\* -- the destination's connection pool (DatabaseManager)
VARIABLES
  checked_out,       \* connections of the pool that are checked out
  direct_open,       \* open connections made by the psycopg2.connect fallback
  dpc,               \* per database client: "idle", "getting", "using"
  dstyle,            \* per client: how its operation holds the connection
  attempt,           \* per client: the loop variable of get_connection
  retry_delay,       \* per client: the local retry_delay
  dconn,             \* per client: "none", "pooled" or "direct"
  dcall,             \* history: per client, its last get_connection call
  db_ops             \* history: operations started

poolVars == <<checked_out, direct_open, dpc, dstyle, attempt, retry_delay, dconn,
              dcall, db_ops>>

\* -- the shared counters of the importer, as the flushers update them
VARIABLES
  counters,          \* [total_records_inserted, total_batches_flushed] of the importer
  cpc,               \* per flusher: where it is in _flush_buffer
  clen,              \* per flusher: len(buffer) of the flush in progress
  cloaded,           \* per flusher: the counter value it read for its "+="
  true_totals,       \* history: records and batches of the successful inserts
  cflushes,          \* history: flushes started
  reported           \* <<the counters the final report printed>>, or <<>>

countVars == <<counters, cpc, clen, cloaded, true_totals, cflushes, reported>>

\* -- one ReidinAPIClient.get call (utils/api_client.py)
VARIABLES
  api_max_retries,   \* the max_retries argument
  api_attempt,       \* the loop variable attempt
  response,          \* the local "response": the status of the last answer
                     \* received in this call, or "unbound"
  api_pc,            \* "idle", "calling", "returned" or "raised"
  api_log,           \* history: per attempt, what happened and the wait after it
  api_calls          \* history: calls started

apiVars == <<api_max_retries, api_attempt, response, api_pc, api_log, api_calls>>

\* -- one MasterImporter.import_all call (import_all.py)
VARIABLES
  m_dry_run,         \* the dry_run argument
  m_skip,            \* the skip_* arguments, by step
  m_pc,              \* the position of the step the call has come to
  m_phase,           \* "idle", "running", "returned" (early return) or
                     \* "completed"
  m_started,         \* history: the steps whose importer was called, in order
  m_failed,          \* history: the steps whose importer raised
  m_logged           \* history: the steps with a logged "... import failed"

masterVars == <<m_dry_run, m_skip, m_pc, m_phase, m_started, m_failed, m_logged>>

vars == <<pipeVars, upsertVars, resumeVars, genVars, rateVars, gateVars,
          pageVars, subVars, runVars, poolVars, countVars, apiVars,
          masterVars>>

\* what the actions of one component leave alone
nonPipeVars == <<upsertVars, resumeVars, genVars, rateVars, gateVars,
                 pageVars, subVars, runVars, poolVars, countVars, apiVars,
                 masterVars>>
nonUpsertVars == <<pipeVars, resumeVars, genVars, rateVars, gateVars,
                   pageVars, subVars, runVars, poolVars, countVars, apiVars,
                   masterVars>>
nonResumeVars == <<pipeVars, upsertVars, genVars, rateVars, gateVars,
                   pageVars, subVars, runVars, poolVars, countVars, apiVars,
                   masterVars>>
nonGenVars == <<pipeVars, upsertVars, resumeVars, rateVars, gateVars,
                pageVars, subVars, runVars, poolVars, countVars, apiVars,
                masterVars>>
nonRateVars == <<pipeVars, upsertVars, resumeVars, genVars, gateVars,
                 pageVars, subVars, runVars, poolVars, countVars, apiVars,
                 masterVars>>
nonGateVars == <<pipeVars, upsertVars, resumeVars, genVars, rateVars,
                 pageVars, subVars, runVars, poolVars, countVars, apiVars,
                 masterVars>>
nonPageVars == <<pipeVars, upsertVars, resumeVars, genVars, rateVars,
                 gateVars, subVars, runVars, poolVars, countVars, apiVars,
                 masterVars>>
nonSubVars == <<pipeVars, upsertVars, resumeVars, genVars, rateVars,
                gateVars, pageVars, runVars, poolVars, countVars, apiVars,
                masterVars>>
nonRunVars == <<pipeVars, upsertVars, resumeVars, genVars, rateVars,
                gateVars, pageVars, subVars, poolVars, countVars, apiVars,
                masterVars>>
nonPoolVars == <<pipeVars, upsertVars, resumeVars, genVars, rateVars,
                 gateVars, pageVars, subVars, runVars, countVars, apiVars,
                 masterVars>>
nonCountVars == <<pipeVars, upsertVars, resumeVars, genVars, rateVars,
                  gateVars, pageVars, subVars, runVars, poolVars, apiVars,
                  masterVars>>
nonApiVars == <<pipeVars, upsertVars, resumeVars, genVars, rateVars,
                gateVars, pageVars, subVars, runVars, poolVars, countVars,
                masterVars>>
nonMasterVars == <<pipeVars, upsertVars, resumeVars, genVars, rateVars,
                   gateVars, pageVars, subVars, runVars, poolVars, countVars,
                   apiVars>>

\* ------------------------------------------------------------ queue items
\* A record is represented by the number of times it has been re-queued.
Pill == [kind |-> "pill", recs |-> <<>>]
RecordItem(r) == [kind |-> "record", recs |-> <<r>>]
ChunkItem(c) == [kind |-> "chunk", recs |-> c]

QueueHasRoom_Unbounded(q) == TRUE
\* Queue.put succeeds only while the queue holds fewer than maxsize entries
QueueHasRoom(q) == Len(q) < QueueMaxsize

QueueFull_Never(q) == FALSE
\* Queue.put(item, timeout=...) raises Full when the wait ends without room
QueueFull(q) == ~QueueHasRoom(q)

Min(a, b) == IF a < b THEN a ELSE b

RECURSIVE SplitChunks(_, _)
\* buffer[i : i + chunk_size] for i in range(0, len(buffer), chunk_size)
SplitChunks(b, n) ==
  IF b = <<>> THEN <<>>
  ELSE <<SubSeq(b, 1, Min(n, Len(b)))>> \o SplitChunks(SubSeq(b, Min(n, Len(b)) + 1, Len(b)), n)

Requeued(c) == [i \in 1..Len(c) |-> c[i] + 1]

Running == {t \in Tasks : task[t].pc = "running"}


\* every task has finished (in the CMA importer: and its result was collected)
FetchComplete ==
  \A t \in Tasks : task[t].pc = (IF importer = "cma" THEN "collected" ELSE "done")

ExitPc_NoFinalFlush(b) == "done"
\* leaving the worker loop: "if buffer: self._flush_buffer(buffer)"
ExitPc(b) == IF b # <<>> THEN "flush" ELSE "done"

\* the pipeline at rest, for the specifications of the other components
PipeIdle ==
  /\ importer = "cma_sales"
  /\ data_queue = <<>>
  /\ task = [t \in Tasks |-> [pc |-> "done", left |-> 0]]
  /\ fpc = [f \in Flushers |-> "done"]
  /\ buffer = [f \in Flushers |-> <<>>]
  /\ fafter = [f \in Flushers |-> "done"]
  /\ chunks = [f \in Flushers |-> <<>>]
  /\ processing_complete = TRUE
  /\ opc = "done"
  /\ pill_attempts = 0
  /\ pills_sent = 0
  /\ total_records_inserted = 0
  /\ total_batches_flushed = 0
  /\ db_failures = 0
  /\ dropped_enqueue = 0
  /\ dropped_requeue = 0
  /\ unflushed = [f \in Flushers |-> 0]
  /\ got_pill = [f \in Flushers |-> FALSE]
  /\ exit_flush = [f \in Flushers |-> 0]

\* the store at rest, for the specifications of the other components
UpsertIdle ==
  /\ entity = "cma_sales"
  /\ records = {}
  /\ table = <<>>
  /\ pass = 0
  /\ todo = {}
  /\ start_table = <<>>
  /\ interrupted = FALSE
  /\ last_op = <<>>

\* no run is being resumed, for the specifications of the other components
ResumeIdle ==
  /\ rimporter = "cma_sales"
  /\ upstream = <<>>
  /\ rstore = {}
  /\ rtasks = {}
  /\ rphase = "done"
  /\ run_no = 0
  /\ skipped = {}
  /\ store_at_filter = {}

\* no task generation, for the specifications of the other components
GenIdle ==
  /\ gimporter = "cma"
  /\ gunits = <<>>
  /\ gtypes = <<>>
  /\ gseconds = <<>>
  /\ gcap = 0
  /\ gtasks = <<>>
  /\ gtasks2 = <<>>
  /\ gphase = 0

RateThreads == {"worker-1", "worker-2"}

NoStats == [timeouts |-> 0, successes |-> 0, successes_recent |-> 0,
            total |-> 0, e429 |-> 0]

\* no rate limiter, for the specifications of the other components
RateIdle ==
  /\ current_rate = 0
  /\ due = FALSE
  /\ timeout_errors = 0
  /\ success_requests = 0
  /\ total_requests = 0
  /\ total_429_errors = 0
  /\ apc = [t \in RateThreads |-> "idle"]
  /\ record_calls = 0
  /\ adjusts = 0
  /\ successes_recent = 0
  /\ prev_rate = 0
  /\ adj_stats = NoStats
  /\ applied_in_interval = 0

GateWorkers == {"fetch-1", "fetch-2"}

\* no gate, for the specifications of the other components
GateIdle ==
  /\ gate_importer = "transaction_list"
  /\ now = 0
  /\ gate_lock = "none"
  /\ gate_sem = 0
  /\ wpc = [w \in GateWorkers |-> "done"]
  /\ wake_at = [w \in GateWorkers |-> 0]
  /\ next_allowed_time = 0
  /\ last_request_time = 0
  /\ grants = <<>>
  /\ passes = [w \in GateWorkers |-> 0]
  /\ issued = [w \in GateWorkers |-> 0]

\* no pagination, for the specifications of the other components
PageIdle ==
  /\ pimporter = "transaction_sales"
  /\ pages = <<>>
  /\ dry_run = FALSE
  /\ page_no = 0
  /\ ploop = "done"
  /\ total_records = 0
  /\ first_empty = 0

NumSubTasks == 3

SubTasks == 1..NumSubTasks

\* no submission loop, for the specifications of the other components
SubIdle ==
  /\ simporter = "cma_sales"
  /\ stask = [t \in SubTasks |-> "ended"]
  /\ api_failed = [t \in SubTasks |-> FALSE]
  /\ task_semaphore = 0
  /\ permit_held = [t \in SubTasks |-> FALSE]
  /\ releases = [t \in SubTasks |-> 0]
  /\ tally = [t \in SubTasks |-> "none"]
  /\ successful_tasks = 0
  /\ failed_tasks = 0
  /\ sphase = "done"
  /\ batch_start = 0
  /\ sub_next = 0
  /\ submits = [t \in SubTasks |-> 0]
  /\ executions = [t \in SubTasks |-> 0]
  /\ task_return = [t \in SubTasks |-> 0]
  /\ records_put = 0
  /\ total_records_processed = 0

RunItems == {"batch-1", "batch-2", "batch-3"}

\* no run, for the specifications of the other components
RunIdle ==
  /\ run_importer = "transaction_rent"
  /\ run_dry_run = FALSE
  /\ run_phase = "idle"
  /\ run_item = [b \in RunItems |-> "pending"]
  /\ all_accumulated_data = 0
  /\ run_stored = 0
  /\ run_writes = 0
  /\ run_transformed = {}
  /\ total_successful_requests = 0
  /\ total_failed_requests = 0

DbClients == {"client-1", "client-2"}

NoCallYet == [attempts |-> 0, backoffs |-> <<>>, result |-> "pending"]

\* no database client, for the specifications of the other components
PoolIdle ==
  /\ checked_out = 0
  /\ direct_open = 0
  /\ dpc = [c \in DbClients |-> "idle"]
  /\ dstyle = [c \in DbClients |-> "finally"]
  /\ attempt = [c \in DbClients |-> 0]
  /\ retry_delay = [c \in DbClients |-> 0]
  /\ dconn = [c \in DbClients |-> "none"]
  /\ dcall = [c \in DbClients |-> NoCallYet]
  /\ db_ops = 0

CountFlushers == {"Flusher-1", "Flusher-2"}

NoTotals == [total_records_inserted |-> 0, total_batches_flushed |-> 0]

\* no flush in progress, for the specifications of the other components
CountIdle ==
  /\ counters = NoTotals
  /\ cpc = [f \in CountFlushers |-> "idle"]
  /\ clen = [f \in CountFlushers |-> 0]
  /\ cloaded = [f \in CountFlushers |-> 0]
  /\ true_totals = NoTotals
  /\ cflushes = 0
  /\ reported = <<>>

\* no API call, for the specifications of the other components
ApiIdle ==
  /\ api_max_retries = 0
  /\ api_attempt = 0
  /\ response = "unbound"
  /\ api_pc = "idle"
  /\ api_log = <<>>
  /\ api_calls = 0

\* no master import, for the specifications of the other components
MasterIdle ==
  /\ m_dry_run = FALSE
  /\ m_skip = <<>>
  /\ m_pc = 0
  /\ m_phase = "idle"
  /\ m_started = <<>>
  /\ m_failed = {}
  /\ m_logged = {}

\* ------------------------------------------------------------------- Init
InitPipe ==
  /\ importer \in Importers
  /\ data_queue = <<>>
  /\ task = [t \in Tasks |-> [pc |-> "pending", left |-> 0]]
  /\ fpc = [f \in Flushers |-> "get"]
  /\ buffer = [f \in Flushers |-> <<>>]
  /\ fafter = [f \in Flushers |-> "get"]
  /\ chunks = [f \in Flushers |-> <<>>]
  /\ processing_complete = FALSE
  /\ opc = "fetching"
  /\ pill_attempts = 0
  /\ pills_sent = 0
  /\ total_records_inserted = 0
  /\ total_batches_flushed = 0
  /\ db_failures = 0
  /\ dropped_enqueue = 0
  /\ dropped_requeue = 0
  /\ unflushed = [f \in Flushers |-> 0]
  /\ got_pill = [f \in Flushers |-> FALSE]
  /\ exit_flush = [f \in Flushers |-> 0]

flusherVars == <<fpc, buffer, fafter, chunks, unflushed, got_pill, exit_flush>>
orchVars == <<processing_complete, opc, pill_attempts, pills_sent>>
counterVars == <<total_records_inserted, total_batches_flushed, db_failures>>

\* ---------------------------------------------------------- fetch workers
\* a fetch task with records left to enqueue is still running; CMAImporter's
\* worker enqueues nothing itself and returns at once
TaskPc(left) == IF left = 0 \/ importer = "cma" THEN "done" ELSE "running"

\* A pool thread takes a submitted task and fetches it: the API answers with
\* 0..RecsPerTask results (a failed call yields none); the CMA importer's
\* worker returns one processed record or None.
StartTask(t) ==
  /\ opc = "fetching"
  /\ task[t].pc = "pending"
  /\ Cardinality(Running) < MaxWorkers
  /\ \E n \in 0..(IF importer = "cma" THEN 1 ELSE RecsPerTask) :
       task' = [task EXCEPT ![t] = [pc |-> TaskPc(n), left |-> n]]
  /\ UNCHANGED <<importer, data_queue, flusherVars, orchVars, counterVars,
                 dropped_enqueue, dropped_requeue, nonPipeVars>>

\* CMASalesImporter.add_to_queue: put(record, timeout=5.0), "except Full" logs
\* and goes on to the next record; TransactionsAvgImporter: a blocking put.
add_to_queue(t) ==
  /\ importer \in {"cma_sales", "transactions_avg"}
  /\ task[t].pc = "running"
  /\ task[t].left > 0
  /\ \/ /\ QueueHasRoom(data_queue)
        /\ data_queue' = Append(data_queue, RecordItem(0))
        /\ UNCHANGED dropped_enqueue
     \/ /\ importer = "cma_sales"
        /\ QueueFull(data_queue)
        /\ dropped_enqueue' = dropped_enqueue + 1
        /\ UNCHANGED data_queue
  /\ task' = [task EXCEPT ![t] = [pc |-> TaskPc(@.left - 1), left |-> @.left - 1]]
  /\ UNCHANGED <<importer, flusherVars, orchVars, counterVars, dropped_requeue,
                 nonPipeVars>>

\* CMAImporter.process_cma: "for future in as_completed(futures)": the
\* orchestrator itself puts the result, with a blocking put
CollectResult(t) ==
  /\ importer = "cma"
  /\ opc = "fetching"
  /\ task[t].pc = "done"
  /\ IF task[t].left > 0
       THEN /\ QueueHasRoom(data_queue)
            /\ data_queue' = Append(data_queue, RecordItem(0))
       ELSE UNCHANGED data_queue
  /\ task' = [task EXCEPT ![t] = [pc |-> "collected", left |-> 0]]
  /\ UNCHANGED <<importer, flusherVars, orchVars, counterVars,
                 dropped_enqueue, dropped_requeue, nonPipeVars>>

\* --------------------------------------------------------- flush workers
\* The time-based flush test read after an append: only TransactionsAvgImporter
\* has one ("or (time.time() - batch_start_time) > 5.0").
ElapsedAtAppend == IF importer = "transactions_avg" THEN BOOLEAN ELSE {FALSE}

ShouldFlush_AboveBatchSize(b, elapsed) == Len(b) > BatchSize \/ elapsed

\* "if len(buffer) >= self.batch_size" after an append (TransactionsAvgImporter:
\* "or (time.time() - batch_start_time) > 5.0")
ShouldFlush(b, elapsed) == Len(b) >= BatchSize \/ elapsed

\* _flusher_worker: data_queue.get(timeout=1.0) returned an item
FlusherGet(f) ==
  /\ fpc[f] = "get"
  /\ data_queue # <<>>
  /\ data_queue' = Tail(data_queue)
  /\ LET data == Head(data_queue) IN
       IF data.kind = "pill"
         THEN /\ got_pill' = [got_pill EXCEPT ![f] = TRUE]
              /\ fpc' = [fpc EXCEPT ![f] = ExitPc(buffer[f])]
              /\ fafter' = [fafter EXCEPT ![f] = "done"]
              /\ UNCHANGED <<buffer, unflushed>>
         ELSE /\ buffer' = [buffer EXCEPT ![f] = @ \o data.recs]
              /\ unflushed' = [unflushed EXCEPT ![f] = @ + Len(data.recs)]
              /\ \E elapsed \in ElapsedAtAppend :
                   IF ShouldFlush(buffer'[f], elapsed)
                     THEN /\ fpc' = [fpc EXCEPT ![f] = "flush"]
                          /\ fafter' = [fafter EXCEPT ![f] = "get"]
                     ELSE UNCHANGED <<fpc, fafter>>
              /\ UNCHANGED got_pill
  /\ UNCHANGED <<importer, task, chunks, exit_flush, orchVars, counterVars,
                 dropped_enqueue, dropped_requeue, nonPipeVars>>

FlushDueOnEmpty_Never(elapsed) == FALSE

\* The flush test of the "except Empty" branch.  CMASalesImporter:
\* "(time.time() - last_flush_time) > 30 or self.processing_complete";
\* CMAImporter: "(time.time() - last_flush_time) > 300";
\* TransactionsAvgImporter flushes on every Empty.
FlushDueOnEmpty(elapsed) ==
  CASE importer = "cma_sales" -> elapsed \/ processing_complete
    [] importer = "cma" -> elapsed
    [] importer = "transactions_avg" -> TRUE

\* _flusher_worker: data_queue.get(timeout=1.0) raised Empty ("elapsed": the
\* flush interval has passed since the last flush).  CMASalesImporter leaves
\* the loop when processing_complete is set.
FlusherEmpty(f) ==
  /\ fpc[f] = "get"
  /\ data_queue = <<>>
  /\ \E elapsed \in BOOLEAN :
       IF buffer[f] # <<>> /\ FlushDueOnEmpty(elapsed)
         THEN /\ fpc' = [fpc EXCEPT ![f] = "flush"]
              /\ fafter' = [fafter EXCEPT ![f] =
                   IF importer = "cma_sales" /\ processing_complete THEN "done" ELSE "get"]
         ELSE /\ importer = "cma_sales"
              /\ processing_complete
              /\ fpc' = [fpc EXCEPT ![f] = ExitPc(buffer[f])]
              /\ fafter' = [fafter EXCEPT ![f] = "done"]
  /\ UNCHANGED <<importer, data_queue, task, buffer, chunks, unflushed, exit_flush,
                 got_pill, orchVars, counterVars, dropped_enqueue, dropped_requeue,
                 nonPipeVars>>

\* _flush_buffer / _flush_batch_to_db: the insert succeeds, or raises; on a
\* failure CMASalesImporter re-queues the batch in chunks, the others only log
_flush_buffer(f) ==
  /\ fpc[f] = "flush"
  /\ unflushed' = [unflushed EXCEPT ![f] = @ - Len(buffer[f])]
  /\ exit_flush' = [exit_flush EXCEPT ![f] = IF fafter[f] = "done" THEN Len(buffer[f]) ELSE @]
  /\ \/ /\ total_records_inserted' = total_records_inserted + Len(buffer[f])
        /\ total_batches_flushed' = total_batches_flushed + 1
        /\ buffer' = [buffer EXCEPT ![f] = <<>>]
        /\ fpc' = [fpc EXCEPT ![f] = fafter[f]]
        /\ UNCHANGED <<db_failures, chunks>>
     \/ /\ db_failures < MaxDbFailures
        /\ db_failures' = db_failures + 1
        /\ IF importer = "cma_sales"
             THEN /\ chunks' = [chunks EXCEPT ![f] =
                        SplitChunks(buffer[f], Min(RequeueChunkSize, Len(buffer[f])))]
                  /\ fpc' = [fpc EXCEPT ![f] = "requeue"]
                  /\ UNCHANGED buffer
             ELSE /\ buffer' = [buffer EXCEPT ![f] = <<>>]
                  /\ fpc' = [fpc EXCEPT ![f] = fafter[f]]
                  /\ UNCHANGED chunks
        /\ UNCHANGED <<total_records_inserted, total_batches_flushed>>
  /\ UNCHANGED <<importer, data_queue, task, fafter, got_pill, orchVars,
                 dropped_enqueue, dropped_requeue, nonPipeVars>>

\* _flush_buffer, the except branch: data_queue.put(chunk, timeout=1.0),
\* "except Full" logs and drops the chunk; buffer.clear() follows the last chunk
RequeueChunk(f) ==
  /\ fpc[f] = "requeue"
  /\ chunks[f] # <<>>
  /\ LET chunk == Head(chunks[f])
         rest == Tail(chunks[f]) IN
       /\ \/ /\ QueueHasRoom(data_queue)
             /\ data_queue' = Append(data_queue, ChunkItem(Requeued(chunk)))
             /\ UNCHANGED dropped_requeue
          \/ /\ QueueFull(data_queue)
             /\ dropped_requeue' = dropped_requeue + Len(chunk)
             /\ UNCHANGED data_queue
       /\ chunks' = [chunks EXCEPT ![f] = rest]
       /\ IF rest = <<>>
            THEN /\ buffer' = [buffer EXCEPT ![f] = <<>>]
                 /\ fpc' = [fpc EXCEPT ![f] = fafter[f]]
            ELSE UNCHANGED <<buffer, fpc>>
  /\ UNCHANGED <<importer, task, fafter, unflushed, got_pill, exit_flush, orchVars,
                 counterVars, dropped_enqueue, nonPipeVars>>

\* ----------------------------------------------------------- orchestrator
\* the executor's "with" block has ended: every task has finished
FetchDone ==
  /\ opc = "fetching"
  /\ FetchComplete
  /\ processing_complete' = (importer = "cma_sales")
  /\ opc' = "pills"
  /\ UNCHANGED <<importer, data_queue, task, flusherVars, pill_attempts, pills_sent,
                 counterVars, dropped_enqueue, dropped_requeue, nonPipeVars>>

PillLoopPc(n) == IF n = NumFlushers THEN "join" ELSE "pills"

\* stop_flusher_threads: one poison pill per flusher.  CMASalesImporter retries a
\* put that raised Full (no step here: the loop stays at the same pill);
\* TransactionsAvgImporter blocks in put(None); CMAImporter goes on to the next
\* iteration when the put raised Full.
stop_flusher_threads ==
  /\ opc = "pills"
  /\ pill_attempts < NumFlushers
  /\ \/ /\ QueueHasRoom(data_queue)
        /\ data_queue' = Append(data_queue, Pill)
        /\ pills_sent' = pills_sent + 1
     \/ /\ importer = "cma"
        /\ QueueFull(data_queue)
        /\ UNCHANGED <<data_queue, pills_sent>>
  /\ pill_attempts' = pill_attempts + 1
  /\ opc' = PillLoopPc(pill_attempts')
  /\ UNCHANGED <<importer, task, flusherVars, processing_complete, counterVars,
                 dropped_enqueue, dropped_requeue, nonPipeVars>>

\* flusher_thread.join(timeout=30) for each thread: all have ended, or the
\* joins timed out
JoinFlushers ==
  /\ opc = "join"
  /\ \E timed_out \in BOOLEAN : timed_out \/ \A f \in Flushers : fpc[f] = "done"
  /\ opc' = "report"
  /\ UNCHANGED <<importer, data_queue, task, flusherVars, processing_complete,
                 pill_attempts, pills_sent, counterVars, dropped_enqueue, dropped_requeue, nonPipeVars>>

\* the final summary is logged
Report ==
  /\ opc = "report"
  /\ opc' = "done"
  /\ UNCHANGED <<importer, data_queue, task, flusherVars, processing_complete,
                 pill_attempts, pills_sent, counterVars, dropped_enqueue, dropped_requeue, nonPipeVars>>

NextPipe ==
  \/ \E t \in Tasks : StartTask(t)
  \/ \E t \in Tasks : add_to_queue(t)
  \/ \E t \in Tasks : CollectResult(t)
  \/ \E f \in Flushers : FlusherGet(f)
  \/ \E f \in Flushers : FlusherEmpty(f)
  \/ \E f \in Flushers : _flush_buffer(f)
  \/ \E f \in Flushers : RequeueChunk(f)
  \/ FetchDone
  \/ stop_flusher_threads
  \/ JoinFlushers
  \/ Report

\* the pipeline starts as constructed; the store is not part of this specification
InitPipeRun == InitPipe /\ UpsertIdle /\ ResumeIdle /\ GenIdle /\ RateIdle
  /\ GateIdle /\ PageIdle /\ SubIdle /\ RunIdle /\ PoolIdle /\ CountIdle
  /\ ApiIdle /\ MasterIdle

SpecPipe == InitPipeRun /\ [][NextPipe]_vars

\* Every flusher is a thread of its own that keeps running its loop: a step
\* of its loop that stays possible is taken.
FlusherFairness ==
  \A f \in Flushers :
    /\ WF_vars(FlusherGet(f))
    /\ WF_vars(FlusherEmpty(f))
    /\ WF_vars(_flush_buffer(f))
    /\ WF_vars(RequeueChunk(f))

\* The run when all work items but the last have finished without a record
\* (a state of SpecPipe after StartTask, for CMAImporter CollectResult, of the
\* other tasks): the start of the runs checked for progress.
InitPipeLastTask ==
  /\ importer \in Importers
  /\ data_queue = <<>>
  /\ task = [t \in Tasks |->
               IF t = "task-1" THEN [pc |-> "pending", left |-> 0]
               ELSE [pc |-> IF importer = "cma" THEN "collected" ELSE "done", left |-> 0]]
  /\ fpc = [f \in Flushers |-> "get"]
  /\ buffer = [f \in Flushers |-> <<>>]
  /\ fafter = [f \in Flushers |-> "get"]
  /\ chunks = [f \in Flushers |-> <<>>]
  /\ processing_complete = FALSE
  /\ opc = "fetching"
  /\ pill_attempts = 0
  /\ pills_sent = 0
  /\ total_records_inserted = 0
  /\ total_batches_flushed = 0
  /\ db_failures = 0
  /\ dropped_enqueue = 0
  /\ dropped_requeue = 0
  /\ unflushed = [f \in Flushers |-> 0]
  /\ got_pill = [f \in Flushers |-> FALSE]
  /\ exit_flush = [f \in Flushers |-> 0]

InitPipeLastTaskRun == InitPipeLastTask /\ UpsertIdle /\ ResumeIdle /\ GenIdle
  /\ RateIdle /\ GateIdle /\ PageIdle /\ SubIdle /\ RunIdle /\ PoolIdle
  /\ CountIdle /\ ApiIdle /\ MasterIdle

SpecPipeFair == InitPipeLastTaskRun /\ [][NextPipe]_vars /\ FlusherFairness


\* ------------------------------------------------- claims on the pipeline
Range(q) == {q[i] : i \in 1..Len(q)}

\* the records waiting in the queue, each the number of times it was re-queued
QueueRecords == UNION {Range(data_queue[i].recs) : i \in 1..Len(data_queue)}

\* C3: in every reachable state the number of entries in the ingestion queue
\* is at most its configured capacity, whoever puts (fetch workers, flush
\* workers re-queuing chunks, the orchestrator sending shutdown signals).
C3_QueueWithinCapacity == Len(data_queue) <= QueueMaxsize

\* the queue is at capacity while a flush worker is about to re-queue a chunk
C3_Witness ==
  /\ Len(data_queue) = QueueMaxsize
  /\ \E f \in Flushers : fpc[f] = "requeue"

\* C4: no record produced by a fetch worker is discarded at enqueue time
\* because the queue was full (the worker blocks until there is room).
C4_NoRecordDroppedAtEnqueue == dropped_enqueue = 0

\* C8: a chunk that fails again after it was re-queued is dropped, not
\* re-queued again: no record is re-queued more than once.
C8_RequeuedAtMostOnce == \A r \in QueueRecords : r <= 1

\* C9: shutdown signals are enqueued only after every fetch worker has
\* completed, and once the orchestrator has left the signalling loop exactly
\* one signal per started flush worker has been enqueued.
C9_OnePillPerFlusher ==
  /\ pills_sent > 0 => FetchComplete
  /\ opc \in {"join", "report", "done"} => pills_sent = NumFlushers

\* C10: a flush worker that has exited has handed every record it dequeued to
\* a flush attempt; none is left behind in its private buffer.
C10_FlushBeforeExit == \A f \in Flushers : fpc[f] = "done" => unflushed[f] = 0

\* a worker received the shutdown signal with a non-empty buffer, flushed it
\* and exited
C10_Witness ==
  \E f \in Flushers : fpc[f] = "done" /\ got_pill[f] /\ exit_flush[f] > 0


\* ======================================================================
\* The destination store: the bulk upsert methods of utils/database.py
\* ======================================================================
NumKeys == 2        \* distinct values of the non-nullable key columns
CopyThreshold == 2  \* the 5000 of "if len(ordered_data) >= 5000", scaled down
PageSize == 2       \* execute_values' default page_size (100), scaled down
MaxRecords == 3     \* most records the work items of a run yield
MaxPasses == 2      \* how often the same work items are run

Entities == {"cma_sales", "transactions_avg", "transaction_raw_rent"}

Null == "NULL"      \* Python None, SQL NULL
\* the nullable key column: date (transaction_raw_rent), no_of_bedrooms
\* (transactions_avg); a CMA sales record always has its key columns
NullableKeyVals == {Null, "2024-01"}
\* the columns outside the key; one value holds a tab
Payloads == {"a b", "a\tb"}

Record == [k : 1..NumKeys, d : NullableKeyVals, v : Payloads]

EmptyTable == [r \in Record |-> 0]

KeyOf(r) == <<r.k, r.d>>

\* Whether the unique index covers the row: NULLs are distinct in a unique
\* index, and transaction_raw_rent's index is partial
\* (WHERE date IS NOT NULL AND price IS NOT NULL).
InUniqueIndex(r) == r.d # Null

Conflicting(t, r) ==
  {x \in Record : t[x] > 0 /\ InUniqueIndex(x) /\ KeyOf(x) = KeyOf(r)}

Conflicts(t, r) == InUniqueIndex(r) /\ Conflicting(t, r) # {}

AddRow(t, r) == [t EXCEPT ![r] = @ + 1]

DelRow(t, r) == [t EXCEPT ![r] = @ - 1]

\* INSERT ... VALUES (batch) ON CONFLICT (...) DO NOTHING: a row whose key is
\* already there (in the table or earlier in the statement) is skipped
RECURSIVE OnConflictDoNothing(_, _)
OnConflictDoNothing(t, b) ==
  IF b = <<>> THEN t
  ELSE OnConflictDoNothing(IF Conflicts(t, Head(b)) THEN t ELSE AddRow(t, Head(b)),
                           Tail(b))

\* One INSERT ... ON CONFLICT (...) DO UPDATE SET ... = EXCLUDED...: the row
\* with the key is overwritten; a key met twice in the statement is the error
\* "ON CONFLICT DO UPDATE command cannot affect row a second time"
RECURSIVE OnConflictDoUpdate(_, _, _)
OnConflictDoUpdate(t, b, touched) ==
  IF b = <<>> THEN [ok |-> TRUE, table |-> t]
  ELSE LET r == Head(b) IN
    IF InUniqueIndex(r) /\ KeyOf(r) \in touched
      THEN [ok |-> FALSE, table |-> t]
      ELSE OnConflictDoUpdate(
             IF Conflicts(t, r)
               THEN AddRow(DelRow(t, CHOOSE x \in Conflicting(t, r) : TRUE), r)
               ELSE AddRow(t, r),
             Tail(b), touched \cup {KeyOf(r)})

\* psycopg2.extras.execute_values: one statement per page of the batch
RECURSIVE execute_values_DoUpdate(_, _)
execute_values_DoUpdate(t, b) ==
  IF b = <<>> THEN [ok |-> TRUE, table |-> t]
  ELSE LET n == Min(PageSize, Len(b))
           page == OnConflictDoUpdate(t, SubSeq(b, 1, n), {}) IN
    IF page.ok THEN execute_values_DoUpdate(page.table, SubSeq(b, n + 1, Len(b)))
    ELSE page

\* _bulk_insert_with_copy writes the text format of COPY: tabs, newlines and
\* carriage returns in a value become spaces
CopyText(r) == [r EXCEPT !.v = IF @ = "a\tb" THEN "a b" ELSE @]

\* COPY ... FROM STDIN has no conflict handling: a row that violates the
\* unique index aborts the command
RECURSIVE copy_from(_, _)
copy_from(t, b) ==
  IF b = <<>> THEN [ok |-> TRUE, table |-> t]
  ELSE IF Conflicts(t, Head(b)) THEN [ok |-> FALSE, table |-> t]
  ELSE copy_from(AddRow(t, Head(b)), Tail(b))

\* the rows of a batch as _bulk_insert_with_copy writes them
CopyRows(b) == [i \in 1..Len(b) |-> CopyText(b[i])]

\* what a call of an insert method did
Outcome(t, raised, copy_tried, copy_failed, rolled_back, fallback_tried) ==
  [table |-> t, raised |-> raised, copy_tried |-> copy_tried,
   copy_failed |-> copy_failed, rolled_back |-> rolled_back,
   fallback_tried |-> fallback_tried]

NoCall == Outcome(EmptyTable, FALSE, FALSE, FALSE, FALSE, FALSE)

\* _bulk_insert_with_copy (cma_sales): COPY, and "except Exception: raise";
\* the aborted transaction ends when the connection goes back to the pool
_bulk_insert_with_copy(t, b) ==
  LET c == copy_from(t, CopyRows(b)) IN
    IF c.ok THEN Outcome(c.table, FALSE, TRUE, FALSE, FALSE, FALSE)
    ELSE Outcome(t, TRUE, TRUE, TRUE, TRUE, FALSE)

\* insert_cma_sales_data: COPY for a batch of 5000 or more, else
\* execute_values with ON CONFLICT (7 key columns) DO NOTHING
insert_cma_sales_data(t, b) ==
  IF Len(b) >= CopyThreshold
    THEN _bulk_insert_with_copy(t, b)
    ELSE Outcome(OnConflictDoNothing(t, b), FALSE, FALSE, FALSE, FALSE, FALSE)

\* _bulk_insert_with_execute_values_fallback: ON CONFLICT (...) WHERE date IS
\* NOT NULL AND price IS NOT NULL DO NOTHING
_bulk_insert_with_execute_values_fallback(t, b) == OnConflictDoNothing(t, b)

\* _bulk_insert_with_copy_optimized (transaction_raw_rent): COPY; on a COPY
\* error conn.rollback() and the fallback
_bulk_insert_with_copy_optimized(t, b) ==
  LET c == copy_from(t, b) IN
    IF c.ok THEN Outcome(c.table, FALSE, TRUE, FALSE, FALSE, FALSE)
    ELSE Outcome(_bulk_insert_with_execute_values_fallback(t, b),
                 FALSE, TRUE, TRUE, TRUE, TRUE)

\* insert_transaction_raw_rent_data: the list goes to COPY in slices of 50000
\* (one slice at the batch sizes modelled)
insert_transaction_raw_rent_data(t, b) == _bulk_insert_with_copy_optimized(t, b)

\* insert_transactions_avg_data: execute_values with ON CONFLICT (7 key
\* columns) DO UPDATE in one transaction; an error rolls it back and is raised
insert_transactions_avg_data(t, b) ==
  LET u == execute_values_DoUpdate(t, b) IN
    IF u.ok THEN Outcome(u.table, FALSE, FALSE, FALSE, FALSE, FALSE)
    ELSE Outcome(t, TRUE, FALSE, FALSE, TRUE, FALSE)

Insert(e, t, b) ==
  CASE e = "cma_sales" -> insert_cma_sales_data(t, b)
    [] e = "transaction_raw_rent" -> insert_transaction_raw_rent_data(t, b)
    [] e = "transactions_avg" -> insert_transactions_avg_data(t, b)

\* the orderings of a set of records
Orderings(S) ==
  {b \in [1..Cardinality(S) -> S] : \A i, j \in 1..Cardinality(S) : b[i] = b[j] => i = j}

\* The record sets a run can produce: _process_cma_sales_data drops records
\* that repeat a key (seen_keys) and every CMA sales key column is set; the
\* other processors pass on what the API returned.
RecordSets(e) ==
  {S \in SUBSET Record :
     /\ S # {}
     /\ Cardinality(S) <= MaxRecords
     /\ e = "cma_sales" =>
          \A x, y \in S : /\ InUniqueIndex(x)
                          /\ KeyOf(x) = KeyOf(y) => x = y}

InitUpsert ==
  /\ entity \in Entities
  /\ records \in RecordSets(entity)
  /\ table = EmptyTable
  /\ pass = 1
  /\ todo = records
  /\ start_table = EmptyTable
  /\ interrupted = FALSE
  /\ last_op = NoCall

\* A flush hands a batch to the insert method: any of the records still to
\* load, in any order.  A batch whose insert raised is lost (the importers of
\* transactions_avg only log it; CMASalesImporter's re-queued chunks can be
\* dropped) or, for CMASalesImporter, comes back on the queue.
InsertBatch ==
  /\ pass >= 1
  /\ \E S \in (SUBSET todo) \ {{}} : \E b \in Orderings(S) :
       LET res == Insert(entity, table, b) IN
         /\ table' = res.table
         /\ last_op' = res
         /\ \/ todo' = todo \ S
            \/ /\ res.raised
               /\ entity = "cma_sales"
               /\ todo' = todo
  /\ UNCHANGED <<entity, records, pass, start_table, interrupted, nonUpsertVars>>

\* The same work items are run again (a resumed or repeated run), after the
\* pass completed or after it was interrupted.
RunAgain ==
  /\ pass >= 1
  /\ pass < MaxPasses
  /\ pass' = pass + 1
  /\ todo' = records
  /\ start_table' = table
  /\ interrupted' = (interrupted \/ todo # {})
  /\ UNCHANGED <<entity, records, table, last_op, nonUpsertVars>>

NextUpsert == InsertBatch \/ RunAgain

\* the store starts empty; the pipeline is not part of this specification
InitUpsertRun == InitUpsert /\ PipeIdle /\ ResumeIdle /\ GenIdle /\ RateIdle
  /\ GateIdle /\ PageIdle /\ SubIdle /\ RunIdle /\ PoolIdle /\ CountIdle
  /\ ApiIdle /\ MasterIdle

SpecUpsert == InitUpsertRun /\ [][NextUpsert]_vars

\* ------------------------------------------------------------ store claims
\* a fixed order of a set of records
RECURSIVE SetToSeq(_)
SetToSeq(S) ==
  IF S = {} THEN <<>>
  ELSE LET x == CHOOSE y \in S : TRUE IN <<x>> \o SetToSeq(S \ {x})

\* the table after the records were loaded one at a time, each as its own batch
RECURSIVE LoadOneByOne(_, _, _)
LoadOneByOne(e, t, b) ==
  IF b = <<>> THEN t
  ELSE LoadOneByOne(e, Insert(e, t, <<Head(b)>>).table, Tail(b))

\* C5: upserting the records of a work item a second time leaves the rows of
\* the destination as they were after the first time, also for records whose
\* nullable key column is NULL (the tables of the cited insert methods:
\* cma_sales and transaction_raw_rent).
C5_UpsertTwiceSameRows ==
  (/\ entity \in {"cma_sales", "transaction_raw_rent"}
   /\ pass >= 2
   /\ ~interrupted
   /\ todo = {}) => table = start_table

\* C6: once all records of the run were flushed, the destination is the same
\* whatever the order of arrival and the partition into batches: it is what
\* loading the records one at a time gives.
C6_OrderAndPartitionIndependent ==
  todo = {} => table = LoadOneByOne(entity, start_table, SetToSeq(records))

\* C7: an insert whose COPY failed rolled back, retried through the
\* conflict-tolerant bulk insert, and did not fail.
C7_CopyFailureFallsBack ==
  last_op.copy_failed =>
    /\ last_op.rolled_back
    /\ last_op.fallback_tried
    /\ ~last_op.raised

\* ======================================================================
\* Resuming a run: the work items and the resume filter of the importers
\* ======================================================================
ResumeImporters == {"cma_sales", "cma2_rents", "transactions_avg"}

Units == {"u1", "u2"}      \* the properties / locations read from the database

\* self.property_types, cut down to the first entries
property_types(imp) ==
  CASE imp = "cma_sales" -> <<"Commercial", "Land">>
    [] imp = "cma2_rents" -> <<"Office">>
    [] imp = "transactions_avg" -> <<"Apartment">>

\* the second parameter of a combination: property_type_subtypes[property_type]
\* (cma_sales), property_subtypes (cma2_rents), activity_types
\* (transactions_avg); aliases, currencies and measurements have one value each
SecondParams(imp, property_type) ==
  CASE imp = "cma_sales" ->
         IF property_type = "Commercial" THEN {"Shop"} ELSE {"Land - General"}
    [] imp = "cma2_rents" -> {"Medical Office", "Office"}
    [] imp = "transactions_avg" -> {"sales", "off-plan"}

SeqRange(q) == {q[i] : i \in DOMAIN q}

\* generate_api_tasks / generate_parameter_combinations / the loops of
\* process_single_location: one work item per unit and parameter combination
WorkItems(imp) ==
  {w \in [unit : Units,
          property_type : SeqRange(property_types(imp)),
          second : UNION {SecondParams(imp, x) : x \in SeqRange(property_types(imp))}] :
     w.second \in SecondParams(imp, w.property_type)}

AllWorkItems == UNION {WorkItems(imp) : imp \in ResumeImporters}

\* the no_of_bedrooms of a stored row: the requests carry none, the processors
\* store what the API returned
Bedrooms == {Null, "1"}

RowOf(w, b) ==
  [unit |-> w.unit, property_type |-> w.property_type, second |-> w.second,
   no_of_bedrooms |-> b]

TupleOf(row) ==
  [unit |-> row.unit, property_type |-> row.property_type, second |-> row.second]

\* get_processed_property_ids: SELECT DISTINCT property_id ... WHERE
\* property_type = property_types[0] (cma2_rents: AND property_subtype =
\* ANY(property_subtypes))
get_processed_property_ids(imp, store) ==
  {row.unit : row \in
     {x \in store :
        /\ x.property_type = property_types(imp)[1]
        /\ imp = "cma2_rents" => x.second \in SecondParams(imp, x.property_type)}}

\* get_processed_location_combinations: SELECT DISTINCT location_id,
\* property_type, activity_type, currency, measurement, no_of_bedrooms
get_processed_location_combinations(store) == store

\* len(property_types) * len(activity_types) * len(currencies) * len(measurements)
total_combinations(imp) ==
  Cardinality({TupleOf(RowOf(w, Null)) : w \in {x \in WorkItems(imp) : x.unit = "u1"}})

\* The work items left in the run after the resume filter.  cma_sales and
\* cma2_rents drop every item of a processed property id; transactions_avg
\* drops a location with total_combinations stored combinations and, in
\* process_single_location, a combination whose key with no_of_bedrooms = None
\* is stored.
RemainingItems(imp, store) ==
  IF imp = "transactions_avg"
    THEN LET processed == get_processed_location_combinations(store) IN
      {w \in WorkItems(imp) :
         /\ Cardinality({pc \in processed : pc.unit = w.unit}) < total_combinations(imp)
         /\ RowOf(w, Null) \notin processed}
    ELSE {w \in WorkItems(imp) : w.unit \notin get_processed_property_ids(imp, store)}

InitResume ==
  /\ rimporter \in ResumeImporters
  /\ upstream \in [WorkItems(rimporter) ->
                     IF rimporter = "transactions_avg" THEN SUBSET Bedrooms
                     ELSE {{}, {Null}}]
  /\ rstore = {}
  /\ rtasks = RemainingItems(rimporter, {})
  /\ rphase = "running"
  /\ run_no = 1
  /\ skipped = {}
  /\ store_at_filter = {}

\* a work item is fetched and what the API returned for it is persisted
ProcessItem(w) ==
  /\ rphase = "running"
  /\ w \in rtasks
  /\ rtasks' = rtasks \ {w}
  /\ rstore' = rstore \cup {RowOf(w, b) : b \in upstream[w]}
  /\ UNCHANGED <<rimporter, upstream, rphase, run_no, skipped, store_at_filter,
                 nonResumeVars>>

\* the run is stopped with work items left
Interrupt ==
  /\ rphase = "running"
  /\ run_no = 1
  /\ rtasks # {}
  /\ rphase' = "interrupted"
  /\ UNCHANGED <<rimporter, upstream, rstore, rtasks, run_no, skipped, store_at_filter,
                 nonResumeVars>>

\* the importer is started again over the same units: the resume filter reads
\* the store and the run takes the work items it leaves
Resume ==
  /\ rphase = "interrupted"
  /\ rtasks' = RemainingItems(rimporter, rstore)
  /\ skipped' = WorkItems(rimporter) \ RemainingItems(rimporter, rstore)
  /\ store_at_filter' = rstore
  /\ run_no' = run_no + 1
  /\ rphase' = "running"
  /\ UNCHANGED <<rimporter, upstream, rstore, nonResumeVars>>

\* every work item of the run was processed
FinishRun ==
  /\ rphase = "running"
  /\ rtasks = {}
  /\ rphase' = "done"
  /\ UNCHANGED <<rimporter, upstream, rstore, rtasks, run_no, skipped, store_at_filter,
                 nonResumeVars>>

NextResume ==
  \/ \E w \in AllWorkItems : ProcessItem(w)
  \/ Interrupt
  \/ Resume
  \/ FinishRun

\* the first run starts on an empty store; the other components are at rest
InitResumeRun == InitResume /\ PipeIdle /\ UpsertIdle /\ GenIdle /\ RateIdle
  /\ GateIdle /\ PageIdle /\ SubIdle /\ RunIdle /\ PoolIdle /\ CountIdle
  /\ ApiIdle /\ MasterIdle

SpecResume == InitResumeRun /\ [][NextResume]_vars

\* ----------------------------------------------------------- resume claims
\* the (unit, parameter combination) tuples the store holds data for
PersistedTuples(store) == {TupleOf(row) : row \in store}

\* C1: a run that was interrupted and resumed ends with the same persisted
\* (unit, parameter combination) tuples as an uninterrupted run over the same
\* work items: every work item the API has data for (the importers of the
\* cited resume filter: cma_sales).
C1_ResumedRunSameTuples ==
  (rimporter = "cma_sales" /\ rphase = "done") =>
    PersistedTuples(rstore) = {TupleOf(RowOf(w, Null)) : w \in {x \in DOMAIN upstream : upstream[x] # {}}}

\* C2: the resume filter removes a work item if and only if the store holds
\* data for the item's own (unit, parameter combination) tuple (stated for the
\* resume filter of cma2_rents, whose stored rows all come from its own work
\* items).
C2_FilterRemovesOwnTupleOnly ==
  (rimporter = "cma2_rents" /\ run_no = 2) =>
    \A w \in WorkItems(rimporter) :
      w \in skipped <=> TupleOf(RowOf(w, Null)) \in PersistedTuples(store_at_filter)

\* ------------------------------------------------------------ final report
\* C11: when the final report of the counters has been emitted, every fetch
\* task has finished and every flush worker has terminated (the importers of
\* the cited shutdown code: cma_sales and transactions_avg).
C11_ReportAfterBothPools ==
  (importer \in {"cma_sales", "transactions_avg"} /\ opc = "done") =>
    /\ FetchComplete
    /\ \A f \in Flushers : fpc[f] = "done"

\* ------------------------------------------------------ size-based flushing
\* C12: a flush worker that is about to dequeue holds fewer than batch_size
\* records in its buffer: a buffer that reached batch_size after an append was
\* flushed whole before the next dequeue.
C12_BufferBelowBatchAtDequeue ==
  \A f \in Flushers : fpc[f] = "get" => Len(buffer[f]) < BatchSize

\* a worker whose buffer reached batch_size after an append and is flushing it
\* before it dequeues again
C12_Witness ==
  \E f \in Flushers :
    /\ fpc[f] = "flush"
    /\ fafter[f] = "get"
    /\ Len(buffer[f]) >= BatchSize

\* ------------------------------------------------------ time-based flushing
\* C13: a flush worker that waits with a non-empty buffer while the queue is
\* empty goes on to flush the buffer, unless a new item arrives first: it does
\* not hold the records for ever.
C13_IdleBufferFlushed ==
  \A f \in Flushers :
    (fpc[f] = "get" /\ buffer[f] # <<>> /\ data_queue = <<>>)
      ~> (fpc[f] = "flush" \/ data_queue # <<>>)

\* a CMASalesImporter worker flushing a buffer below batch_size on the flush
\* interval, with the run still fetching
C13_Witness ==
  /\ importer = "cma_sales"
  /\ ~processing_complete
  /\ \E f \in Flushers :
       /\ fpc[f] = "flush"
       /\ fafter[f] = "get"
       /\ buffer[f] # <<>>
       /\ Len(buffer[f]) < BatchSize

\* ======================================================================
\* Task generation with the per-unit cap
\* ======================================================================
MaxCap == 3            \* largest cap tried
MaxDimLen == 2         \* most values a dimension has

GenImporters == {"cma", "cma_sales"}

\* the sequences without repetition of 1..MaxDimLen elements of S
DimSeqs(S) ==
  {q \in UNION {[1..n -> S] : n \in 1..MaxDimLen} :
     \A i, j \in DOMAIN q : q[i] = q[j] => i = j}

ApiTask(u, pt, sp) == [property_id |-> u, property_type |-> pt, second |-> sp]

\* CMAImporter.process_cma, the innermost loop: "if combinations >=
\* max_combinations: break", else append the task and count it
RECURSIVE CmaInnerLoop(_, _, _, _, _)
CmaInnerLoop(u, pt, seconds, cap, st) ==
  IF seconds = <<>> \/ st.combinations >= cap THEN st
  ELSE CmaInnerLoop(u, pt, Tail(seconds), cap,
         [tasks |-> Append(st.tasks, ApiTask(u, pt, Head(seconds))),
          combinations |-> st.combinations + 1])

\* the loop over property_types around it: "if combinations >=
\* max_combinations: break" after the inner loop (the loops over aliases,
\* currencies and measurements have one value each)
RECURSIVE CmaOuterLoop(_, _, _, _, _)
CmaOuterLoop(u, types, seconds, cap, st) ==
  IF types = <<>> THEN st
  ELSE LET inner == CmaInnerLoop(u, Head(types), seconds, cap, st) IN
    IF inner.combinations >= cap THEN inner
    ELSE CmaOuterLoop(u, Tail(types), seconds, cap, inner)

\* CMAImporter.process_cma: "for property_data in properties", with
\* combinations = 0 for each property
RECURSIVE CmaGenerate(_, _, _, _, _)
CmaGenerate(units, types, seconds, cap, tasks) ==
  IF units = <<>> THEN tasks
  ELSE CmaGenerate(Tail(units), types, seconds, cap,
         CmaOuterLoop(Head(units), types, seconds, cap,
                      [tasks |-> tasks, combinations |-> 0]).tasks)

\* CMASalesImporter.generate_api_tasks, the loop over relevant_subtypes:
\* every subtype is appended
RECURSIVE SalesInnerLoop(_, _, _, _)
SalesInnerLoop(u, pt, seconds, tasks) ==
  IF seconds = <<>> THEN tasks
  ELSE SalesInnerLoop(u, pt, Tail(seconds), Append(tasks, ApiTask(u, pt, Head(seconds))))

RECURSIVE SalesOuterLoop(_, _, _, _)
SalesOuterLoop(u, types, seconds, tasks) ==
  IF types = <<>> THEN tasks
  ELSE SalesOuterLoop(u, Tail(types), seconds,
                      SalesInnerLoop(u, Head(types), seconds, tasks))

\* CMASalesImporter.generate_api_tasks(properties,
\* max_combinations_per_property): the loops never read the cap
RECURSIVE generate_api_tasks(_, _, _, _, _)
generate_api_tasks(units, types, seconds, max_combinations_per_property, tasks) ==
  IF units = <<>> THEN tasks
  ELSE generate_api_tasks(Tail(units), types, seconds, max_combinations_per_property,
                          SalesOuterLoop(Head(units), types, seconds, tasks))

Generate(imp, units, types, seconds, cap) ==
  IF imp = "cma" THEN CmaGenerate(units, types, seconds, cap, <<>>)
  ELSE generate_api_tasks(units, types, seconds, cap, <<>>)

InitGen ==
  /\ gimporter \in GenImporters
  /\ gunits \in DimSeqs({"u1", "u2"})
  /\ gtypes \in DimSeqs({"A", "B"})
  /\ gseconds \in DimSeqs({"X", "Y"})
  /\ gcap \in 1..MaxCap
  /\ gtasks = <<>>
  /\ gtasks2 = <<>>
  /\ gphase = 0

\* the importer generates the tasks of the run
GenerateTasks ==
  /\ gphase = 0
  /\ gtasks' = Generate(gimporter, gunits, gtypes, gseconds, gcap)
  /\ gphase' = 1
  /\ UNCHANGED <<gimporter, gunits, gtypes, gseconds, gcap, gtasks2, nonGenVars>>

\* the importer is run again over the same inputs
GenerateAgain ==
  /\ gphase = 1
  /\ gtasks2' = Generate(gimporter, gunits, gtypes, gseconds, gcap)
  /\ gphase' = 2
  /\ UNCHANGED <<gimporter, gunits, gtypes, gseconds, gcap, gtasks, nonGenVars>>

NextGen == GenerateTasks \/ GenerateAgain

InitGenRun == InitGen /\ PipeIdle /\ UpsertIdle /\ ResumeIdle /\ RateIdle
  /\ GateIdle /\ PageIdle /\ SubIdle /\ RunIdle /\ PoolIdle /\ CountIdle
  /\ ApiIdle /\ MasterIdle

SpecGen == InitGenRun /\ [][NextGen]_vars

\* ------------------------------------------------------ generation claims
\* the dimension product in the nested iteration order
DimProduct(u, types, seconds) ==
  [i \in 1..(Len(types) * Len(seconds)) |->
     ApiTask(u, types[((i - 1) \div Len(seconds)) + 1], seconds[((i - 1) % Len(seconds)) + 1])]

TasksOfUnit(tasks, u) == SelectSeq(tasks, LAMBDA t : t.property_id = u)

\* C14: for every unit the generated work items are exactly the first
\* min(cap, size of the dimension product) items of the nested iteration
\* order, and a second generation over the same inputs yields the same list.
C14_CapPerUnit ==
  gphase = 2 =>
    /\ gtasks2 = gtasks
    /\ \A i \in DOMAIN gunits :
         TasksOfUnit(gtasks, gunits[i]) =
           SubSeq(DimProduct(gunits[i], gtypes, gseconds), 1,
                  Min(gcap, Len(gtypes) * Len(gseconds)))


\* ======================================================================
\* AdaptiveRateLimiter (import_transaction_rent.py).  Rates are kept in
\* thousandths of a request per second; a product is rounded down to a
\* thousandth.
min_rate == 500
max_rate == 5000
DequeMaxlen == 100
MaxRecordCalls == 3
MaxAdjusts == 2

\* initial_rate is OptimizedProcessingConfig.requests_per_second: the floor,
\* the class default 2.0, the ceiling, and the configuration default 8.0
InitialRates == {min_rate, 2000, max_rate, 8000}

\* how many successive requests with one outcome a recording step stands for
Bursts == {1, 19, 60}

\* what _detect_error_type returns
ErrorTypes == {"timeout", "429", "None"}

Max(a, b) == IF a > b THEN a ELSE b

\* the outcome counts the limiter holds
Stats == [timeouts |-> timeout_errors, successes |-> success_requests,
          successes_recent |-> successes_recent,
          total |-> total_requests, e429 |-> total_429_errors]

\* timeout_rate = recent_timeouts / max(recent_requests, 1), where
\* recent_requests = len(self.success_requests) + recent_timeouts
HighTimeoutRate(t, s) == 10 * t > Max(s + t, 1)
ModerateTimeoutRate(t, s) == 20 * t > Max(s + t, 1)

\* timeout_rate < 0.01 and error_rate < 0.02, error_rate over the lifetime
\* counters
LowErrorRates(t, s, e, total) ==
  /\ 100 * t < Max(s + t, 1)
  /\ 50 * e < Max(total, 1)

Scale(rate, num, den) == (rate * num) \div den

\* the branches of adjust_rate
NewRate(rate, t, s, e, total) ==
  IF HighTimeoutRate(t, s) THEN Max(min_rate, Scale(rate, 7, 10))
  ELSE IF ModerateTimeoutRate(t, s) THEN Max(min_rate, Scale(rate, 85, 100))
  ELSE IF LowErrorRates(t, s, e, total) THEN Min(max_rate, Scale(rate, 11, 10))
  ELSE rate

\* AdaptiveRateLimiter.__init__, called by __post_init__ with
\* initial_rate = requests_per_second
InitRate ==
  /\ current_rate \in InitialRates
  /\ due = FALSE
  /\ timeout_errors = 0
  /\ success_requests = 0
  /\ total_requests = 0
  /\ total_429_errors = 0
  /\ apc = [t \in RateThreads |-> "idle"]
  /\ record_calls = 0
  /\ adjusts = 0
  /\ successes_recent = 0
  /\ prev_rate = current_rate
  /\ adj_stats = NoStats
  /\ applied_in_interval = 0

\* n successive calls of record_request with the same outcome (each call
\* runs under the lock)
record_request(success, error_type, n) ==
  /\ record_calls < MaxRecordCalls
  /\ record_calls' = record_calls + 1
  /\ total_requests' = total_requests + n
  /\ IF success
       THEN /\ success_requests' = Min(success_requests + n, DequeMaxlen)
            /\ successes_recent' = Min(successes_recent + n, DequeMaxlen)
            /\ UNCHANGED <<timeout_errors, total_429_errors>>
       ELSE IF error_type = "timeout"
         THEN /\ timeout_errors' = Min(timeout_errors + n, DequeMaxlen)
              /\ UNCHANGED <<success_requests, successes_recent, total_429_errors>>
         ELSE IF error_type = "429"
           THEN /\ total_429_errors' = total_429_errors + n
                /\ UNCHANGED <<success_requests, successes_recent, timeout_errors>>
           ELSE UNCHANGED <<success_requests, successes_recent, timeout_errors,
                            total_429_errors>>
  /\ UNCHANGED <<current_rate, due, apc, adjusts, prev_rate, adj_stats,
                 applied_in_interval, nonRateVars>>

\* more than adjustment_interval seconds have passed since last_adjustment
IntervalElapses ==
  /\ ~due
  /\ due' = TRUE
  /\ applied_in_interval' = 0
  /\ UNCHANGED <<current_rate, timeout_errors, success_requests, total_requests,
                 total_429_errors, apc, record_calls, adjusts, successes_recent,
                 prev_rate, adj_stats, nonRateVars>>

\* the recorded outcomes become older than 120 s: the timeouts drop out of
\* recent_timeouts, the successes stay in their deque
WindowElapses ==
  /\ timeout_errors + successes_recent > 0
  /\ timeout_errors' = 0
  /\ successes_recent' = 0
  /\ UNCHANGED <<current_rate, due, success_requests, total_requests,
                 total_429_errors, apc, record_calls, adjusts, prev_rate,
                 adj_stats, applied_in_interval, nonRateVars>>

\* adjust_rate, first statement: should_adjust() is read without the lock
should_adjust(t) ==
  /\ apc[t] = "idle"
  /\ adjusts < MaxAdjusts
  /\ apc' = [apc EXCEPT ![t] = IF due THEN "passed" ELSE "idle"]
  /\ UNCHANGED <<current_rate, due, timeout_errors, success_requests,
                 total_requests, total_429_errors, record_calls, adjusts,
                 successes_recent, prev_rate, adj_stats, applied_in_interval,
                 nonRateVars>>

\* adjust_rate, the block under the lock: the interval is not read again
adjust_rate(t) ==
  /\ apc[t] = "passed"
  /\ apc' = [apc EXCEPT ![t] = "idle"]
  /\ due' = FALSE
  /\ prev_rate' = current_rate
  /\ current_rate' = NewRate(current_rate, timeout_errors, success_requests,
                             total_429_errors, total_requests)
  /\ adj_stats' = Stats
  /\ adjusts' = adjusts + 1
  /\ applied_in_interval' = applied_in_interval + 1
  /\ UNCHANGED <<timeout_errors, success_requests, total_requests,
                 total_429_errors, record_calls, successes_recent, nonRateVars>>

NextRate ==
  \/ \E n \in Bursts : record_request(TRUE, "None", n)
  \/ \E e \in ErrorTypes, n \in Bursts : record_request(FALSE, e, n)
  \/ IntervalElapses
  \/ WindowElapses
  \/ \E t \in RateThreads : should_adjust(t)
  \/ \E t \in RateThreads : adjust_rate(t)

InitRateRun == InitRate /\ PipeIdle /\ UpsertIdle /\ ResumeIdle /\ GenIdle
  /\ GateIdle /\ PageIdle /\ SubIdle /\ RunIdle /\ PoolIdle /\ CountIdle
  /\ ApiIdle /\ MasterIdle

SpecRate == InitRateRun /\ [][NextRate]_vars

\* C15: in every state of the limiter, from construction onward,
\* min_rate <= current_rate <= max_rate.
C15_RateWithinBounds == min_rate <= current_rate /\ current_rate <= max_rate


\* the timeout rate of the outcomes recorded in the last 120 s, as the last
\* adjustment found them, is above 10%
WindowTimeoutRateHigh ==
  10 * adj_stats.timeouts > adj_stats.timeouts + adj_stats.successes_recent

\* C16: when the outcomes recorded in the window have a timeout rate above
\* 10%, the adjustment leaves current_rate strictly lower than before (stated
\* here for the prior rates above min_rate, where a lower rate exists).
C16_HighTimeoutsDecrease ==
  (adjusts > 0 /\ prev_rate > min_rate /\ WindowTimeoutRateHigh) =>
    current_rate < prev_rate


\* the outcome counts the last adjustment computed its rates from were near
\* error-free: timeout rate below 1% and 429 rate below 2%
NearErrorFree ==
  LowErrorRates(adj_stats.timeouts, adj_stats.successes, adj_stats.e429,
                adj_stats.total)

\* C17: when the recorded outcomes are near error-free, the adjustment leaves
\* current_rate strictly higher than before and not above max_rate, for every
\* prior rate, the configured initial rate included (stated here for the prior
\* rates other than max_rate itself).
C17_LowErrorsIncrease ==
  (adjusts > 0 /\ prev_rate # max_rate /\ NearErrorFree) =>
    (current_rate > prev_rate /\ current_rate <= max_rate)


\* C18: under any interleaving of the worker threads that call adjust_rate,
\* at most one adjustment is applied per adjustment interval.
C18_OneAdjustmentPerInterval == applied_in_interval <= 1


\* ======================================================================
\* The pacing gates: _RateLimiter.acquire (import_transaction_list.py),
\* CMAImporter._rate_limit (import_cma.py) and
\* IndicatorLocationIDImporter._rate_limited_request
\* (import_indicator_locationid.py).  Time is counted in ticks.
MinInterval == 2
MaxTime == 8
MaxGateCalls == 2

GateImporters == {"transaction_list", "cma", "indicator_locationid"}

\* the gate lets worker w pass at the time now
Granted(w) ==
  /\ grants' = Append(grants, now)
  /\ passes' = [passes EXCEPT ![w] = @ + 1]

\* construction of the importer; time.time() is far from 0, so the first
\* caller never finds the initial 0 of the time fields recent
InitGate ==
  /\ gate_importer \in GateImporters
  /\ now = MinInterval
  /\ gate_lock = "none"
  /\ gate_sem = Cardinality(GateWorkers)
  /\ wpc = [w \in GateWorkers |-> "idle"]
  /\ wake_at = [w \in GateWorkers |-> 0]
  /\ next_allowed_time = 0
  /\ last_request_time = 0
  /\ grants = <<>>
  /\ passes = [w \in GateWorkers |-> 0]
  /\ issued = [w \in GateWorkers |-> 0]

\* time passes
Tick ==
  /\ now < MaxTime
  /\ now' = now + 1
  /\ UNCHANGED <<gate_importer, gate_lock, gate_sem, wpc, wake_at,
                 next_allowed_time, last_request_time, grants, passes, issued,
                 nonGateVars>>

\* _RateLimiter.acquire: takes the lock, and either sleeps with the lock held
\* or stamps _next_allowed_time and returns
acquire(w) ==
  /\ gate_importer = "transaction_list"
  /\ wpc[w] = "idle"
  /\ gate_lock = "none"
  /\ IF now < next_allowed_time
       THEN /\ gate_lock' = w
            /\ wpc' = [wpc EXCEPT ![w] = "sleep"]
            /\ wake_at' = [wake_at EXCEPT ![w] = next_allowed_time]
            /\ UNCHANGED <<next_allowed_time, grants, passes>>
       ELSE /\ next_allowed_time' = now + MinInterval
            /\ Granted(w)
            /\ wpc' = [wpc EXCEPT ![w] = "granted"]
            /\ UNCHANGED <<gate_lock, wake_at>>
  /\ UNCHANGED <<gate_importer, now, gate_sem, last_request_time, issued,
                 nonGateVars>>

\* CMAImporter._rate_limit, up to the sleep: the fields are read without a lock
_rate_limit(w) ==
  /\ gate_importer = "cma"
  /\ wpc[w] = "idle"
  /\ LET time_since_last == now - last_request_time
     IN IF time_since_last < MinInterval
          THEN /\ wpc' = [wpc EXCEPT ![w] = "sleep"]
               /\ wake_at' = [wake_at EXCEPT ![w] = now + (MinInterval - time_since_last)]
          ELSE /\ wpc' = [wpc EXCEPT ![w] = "stamp"]
               /\ UNCHANGED wake_at
  /\ UNCHANGED <<gate_importer, now, gate_lock, gate_sem, next_allowed_time,
                 last_request_time, grants, passes, issued, nonGateVars>>

\* CMAImporter._rate_limit, last statement: self.last_request_time = time.time()
_rate_limit_stamp(w) ==
  /\ gate_importer = "cma"
  /\ \/ wpc[w] = "stamp"
     \/ wpc[w] = "sleep" /\ now >= wake_at[w]
  /\ last_request_time' = now
  /\ Granted(w)
  /\ wpc' = [wpc EXCEPT ![w] = "granted"]
  /\ UNCHANGED <<gate_importer, now, gate_lock, gate_sem, wake_at,
                 next_allowed_time, issued, nonGateVars>>

\* _rate_limited_request: takes a permit of Semaphore(max_workers) and sleeps
\* request_delay
_rate_limited_request(w) ==
  /\ gate_importer = "indicator_locationid"
  /\ wpc[w] = "idle"
  /\ gate_sem > 0
  /\ gate_sem' = gate_sem - 1
  /\ wpc' = [wpc EXCEPT ![w] = "sleep"]
  /\ wake_at' = [wake_at EXCEPT ![w] = now + MinInterval]
  /\ UNCHANGED <<gate_importer, now, gate_lock, next_allowed_time,
                 last_request_time, grants, passes, issued, nonGateVars>>

\* time.sleep returns in acquire (which stamps and unlocks) and in
\* _rate_limited_request (which goes on to the API call)
sleep_returns(w) ==
  /\ gate_importer \in {"transaction_list", "indicator_locationid"}
  /\ wpc[w] = "sleep"
  /\ now >= wake_at[w]
  /\ IF gate_importer = "transaction_list"
       THEN /\ next_allowed_time' = now + MinInterval
            /\ gate_lock' = "none"
       ELSE UNCHANGED <<next_allowed_time, gate_lock>>
  /\ Granted(w)
  /\ wpc' = [wpc EXCEPT ![w] = "granted"]
  /\ UNCHANGED <<gate_importer, now, gate_sem, wake_at, last_request_time,
                 issued, nonGateVars>>

\* the API request that follows the gate; _rate_limited_request returns its
\* permit after it
IssueRequest(w) ==
  /\ wpc[w] = "granted"
  /\ issued' = [issued EXCEPT ![w] = @ + 1]
  /\ gate_sem' = IF gate_importer = "indicator_locationid" THEN gate_sem + 1
                 ELSE gate_sem
  /\ wpc' = [wpc EXCEPT ![w] = IF passes[w] < MaxGateCalls THEN "idle" ELSE "done"]
  /\ UNCHANGED <<gate_importer, now, gate_lock, wake_at, next_allowed_time,
                 last_request_time, grants, passes, nonGateVars>>

NextGate ==
  \/ Tick
  \/ \E w \in GateWorkers : acquire(w)
  \/ \E w \in GateWorkers : _rate_limit(w)
  \/ \E w \in GateWorkers : _rate_limit_stamp(w)
  \/ \E w \in GateWorkers : _rate_limited_request(w)
  \/ \E w \in GateWorkers : sleep_returns(w)
  \/ \E w \in GateWorkers : IssueRequest(w)

InitGateRun == InitGate /\ PipeIdle /\ UpsertIdle /\ ResumeIdle /\ GenIdle
  /\ RateIdle /\ PageIdle /\ SubIdle /\ RunIdle /\ PoolIdle /\ CountIdle
  /\ ApiIdle /\ MasterIdle

SpecGate == InitGateRun /\ [][NextGate]_vars

\* C19: the gate is global: any two consecutively granted requests are at
\* least the minimum inter-request interval apart, and a worker issues no
\* request it has not passed the gate for.
C19_GlobalPacing ==
  /\ \A i \in 1..(Len(grants) - 1) : grants[i + 1] - grants[i] >= MinInterval
  /\ \A w \in GateWorkers : issued[w] <= passes[w]


\* ======================================================================
\* Pagination of one work item: _fetch_location_data
\* (import_transaction_rent.py), _fetch_and_process_one
\* (import_transaction_sales.py), process_single_location
\* (import_indicator_locationid.py).  One action is one pass of the loop.
PageRecords == 2
MaxPages == 4
MaxServerPages == 3

PageImporters == {"transaction_rent", "transaction_sales", "indicator_locationid"}

\* what the API can answer to one request: a failure, an empty page, or a
\* full page whose records do or do not carry a price; with or without a cursor
Responses ==
  {[kind |-> "error", n |-> 0, valid |-> FALSE, cursor |-> FALSE]}
  \cup {[kind |-> "ok", n |-> 0, valid |-> FALSE, cursor |-> c] : c \in BOOLEAN}
  \cup {[kind |-> "ok", n |-> PageRecords, valid |-> v, cursor |-> c] :
          v \in BOOLEAN, c \in BOOLEAN}

LastPage == [kind |-> "ok", n |-> 0, valid |-> FALSE, cursor |-> FALSE]

PageSeqs == UNION {[1..k -> Responses] : k \in 0..MaxServerPages}

\* the answer to the i-th request of the work item; past the listed answers
\* the server goes on answering as it last did
Response(i) ==
  IF i <= Len(pages) THEN pages[i]
  ELSE IF pages = <<>> THEN LastPage ELSE pages[Len(pages)]

IsEmptyPage(r) == r.kind = "ok" /\ r.n = 0

InitPage ==
  /\ pimporter \in PageImporters
  /\ pages \in PageSeqs
  /\ dry_run \in BOOLEAN
  /\ page_no = 0
  /\ ploop = "running"
  /\ total_records = 0
  /\ first_empty = 0

\* the bookkeeping of one request: the request counter and the first empty
\* answer
Requested(r) ==
  /\ page_no' = page_no + 1
  /\ first_empty' = IF first_empty = 0 /\ IsEmptyPage(r) THEN page_no + 1
                    ELSE first_empty

\* a loop that makes one pass more than max_pages
Continue_OnePassMore == IF page_no + 1 < MaxPages + 1 THEN "running" ELSE "done"

\* the loop goes on only below max_pages
Continue == IF page_no + 1 < MaxPages THEN "running" ELSE "done"

\* the tail of the loop body: current_scroll_id = payload.get("scroll_id");
\* if not current_scroll_id: break
AfterCursorCheck(r) == IF r.cursor THEN Continue ELSE "done"

\* OptimizedTransactionRentImporter._fetch_location_data, one pass
_fetch_location_data ==
  /\ pimporter = "transaction_rent"
  /\ ploop = "running"
  /\ LET r == Response(page_no + 1)
     IN /\ Requested(r)
        /\ IF r.kind = "error"
             THEN ploop' = "done" /\ UNCHANGED total_records
             ELSE IF r.n > 0
               THEN /\ total_records' = total_records + r.n
                    /\ ploop' = IF ~dry_run /\ ~r.valid THEN "done"
                                ELSE AfterCursorCheck(r)
               ELSE /\ UNCHANGED total_records
                    /\ ploop' = AfterCursorCheck(r)
  /\ UNCHANGED <<pimporter, pages, dry_run, nonPageVars>>

\* TransactionSalesImporter._fetch_and_process_one, one pass
_fetch_and_process_one ==
  /\ pimporter = "transaction_sales"
  /\ ploop = "running"
  /\ LET r == Response(page_no + 1)
     IN /\ Requested(r)
        /\ IF r.kind = "error"
             THEN ploop' = "done" /\ UNCHANGED total_records
             ELSE IF r.n > 0
               THEN /\ total_records' = total_records + r.n
                    /\ ploop' = AfterCursorCheck(r)
               ELSE /\ UNCHANGED total_records
                    /\ ploop' = "done"
  /\ UNCHANGED <<pimporter, pages, dry_run, nonPageVars>>

\* IndicatorLocationIDImporter.process_single_location, one pass: a failed
\* request skips the page, an empty answer ends the loop
process_single_location ==
  /\ pimporter = "indicator_locationid"
  /\ ploop = "running"
  /\ LET r == Response(page_no + 1)
     IN /\ Requested(r)
        /\ IF r.kind = "error"
             THEN ploop' = Continue /\ UNCHANGED total_records
             ELSE IF r.n > 0
               THEN /\ total_records' = total_records + r.n
                    /\ ploop' = Continue
               ELSE /\ UNCHANGED total_records
                    /\ ploop' = "done"
  /\ UNCHANGED <<pimporter, pages, dry_run, nonPageVars>>

NextPage ==
  \/ _fetch_location_data
  \/ _fetch_and_process_one
  \/ process_single_location

InitPageRun == InitPage /\ PipeIdle /\ UpsertIdle /\ ResumeIdle /\ GenIdle
  /\ RateIdle /\ GateIdle /\ SubIdle /\ RunIdle /\ PoolIdle /\ CountIdle
  /\ ApiIdle /\ MasterIdle

SpecPage == InitPageRun /\ [][NextPage]_vars

\* C20: pagination of a work item stops at the first empty page: after an
\* answer with zero results no further request is issued for it, with or
\* without a cursor in that answer.
C20_StopAtFirstEmptyPage == first_empty # 0 => page_no = first_empty


\* the pagination loop is straight-line code of a running worker: each pass
\* ends with an answer or a failure of the request
SpecPageFair == InitPageRun /\ [][NextPage]_vars /\ WF_vars(NextPage)

\* C21: for every work item and every server behaviour the pagination loop
\* terminates, having issued at most max_pages requests.
C21_PaginationTerminates == <>[](ploop = "done" /\ page_no <= MaxPages)

\* the loop was ended by max_pages alone: the server's last answer was a
\* full page with a cursor
C21_Witness ==
  /\ ploop = "done"
  /\ page_no = MaxPages
  /\ \A i \in 1..MaxPages :
       /\ Response(i).kind = "ok"
       /\ Response(i).n > 0
       /\ Response(i).valid
       /\ Response(i).cursor


\* ======================================================================
\* Submission of the work items to the fetch pool, and the run's tallies:
\* CMASalesImporter.process_cma_sales (import_cma_sales.py) and
\* TransactionsAvgImporter.process_transactions_avg
\* (import_transactions_avg.py).
SubWorkers == 1
BatchMultiple == 2
SemMultiple == 3
AvgBatchSize == 2
SubRecs == 1

SubImporters == {"cma_sales", "transactions_avg", "cma"}

\* Semaphore(max_workers * 50)
SemSize == SubWorkers * SemMultiple

\* max_futures_in_memory = self.max_workers * 20;
\* batch_size = min(40, len(remaining_locations));
\* CMAImporter submits the whole task list in one loop
SubBatchSize ==
  IF simporter = "cma_sales" THEN SubWorkers * BatchMultiple
  ELSE IF simporter = "cma" THEN NumSubTasks
  ELSE Min(AvgBatchSize, NumSubTasks)

\* the work items of the batch in hand
SubBatch == {t \in SubTasks : batch_start <= t /\ t < batch_start + SubBatchSize}

\* submitted to the pool and not yet completed
InFlight == {t \in SubTasks : stask[t] \in {"queued", "running"}}

Least(S) == CHOOSE t \in S : \A u \in S : t <= u

NextBatchStart_Overlapping(b) == b + SubBatchSize - 1

\* "for i in range(0, len(api_tasks), batch_size)": the next value of i
NextBatchStart(b) == b + SubBatchSize

InitSub ==
  /\ simporter \in SubImporters
  /\ stask = [t \in SubTasks |-> "new"]
  /\ api_failed = [t \in SubTasks |-> FALSE]
  /\ task_semaphore = SemSize
  /\ permit_held = [t \in SubTasks |-> FALSE]
  /\ releases = [t \in SubTasks |-> 0]
  /\ tally = [t \in SubTasks |-> "none"]
  /\ successful_tasks = 0
  /\ failed_tasks = 0
  /\ sphase = "submitting"
  /\ batch_start = 1
  /\ sub_next = 1
  /\ submits = [t \in SubTasks |-> 0]
  /\ executions = [t \in SubTasks |-> 0]
  /\ task_return = [t \in SubTasks |-> 0]
  /\ records_put = 0
  /\ total_records_processed = 0

\* The submission of the next work item of the batch ("for task in
\* batch_tasks").  CMASalesImporter and CMAImporter:
\* self.task_semaphore.acquire(); executor.submit(...).
\* TransactionsAvgImporter: "with self.task_semaphore: executor.submit(...)",
\* which gives the permit back as soon as submit returns.
SubmitTask ==
  /\ sphase = "submitting"
  /\ task_semaphore > 0
  /\ sub_next \in SubBatch
  /\ LET t == sub_next
     IN /\ stask' = [stask EXCEPT ![t] = "queued"]
        /\ submits' = [submits EXCEPT ![t] = @ + 1]
        /\ sub_next' = t + 1
        /\ IF simporter \in {"cma_sales", "cma"}
             THEN /\ task_semaphore' = task_semaphore - 1
                  /\ permit_held' = [permit_held EXCEPT ![t] = TRUE]
                  /\ UNCHANGED releases
             ELSE /\ releases' = [releases EXCEPT ![t] = @ + 1]
                  /\ UNCHANGED <<task_semaphore, permit_held>>
        /\ sphase' = IF t + 1 \in SubBatch THEN "submitting" ELSE "collecting"
  /\ UNCHANGED <<simporter, api_failed, tally, successful_tasks, failed_tasks,
                 batch_start, executions, task_return, records_put,
                 total_records_processed, nonSubVars>>

\* a pool thread takes the work item: process_single_api_call /
\* process_single_location / _api_worker make the API call, which answers or
\* fails
process_single_api_call(t) ==
  /\ stask[t] = "queued"
  /\ Cardinality({u \in SubTasks : stask[u] = "running"}) < SubWorkers
  /\ stask' = [stask EXCEPT ![t] = "running"]
  /\ executions' = [executions EXCEPT ![t] = @ + 1]
  /\ \E failed \in BOOLEAN : api_failed' = [api_failed EXCEPT ![t] = failed]
  /\ UNCHANGED <<simporter, task_semaphore, permit_held, releases, tally,
                 successful_tasks, failed_tasks, sphase, batch_start, sub_next,
                 submits, task_return, records_put, total_records_processed,
                 nonSubVars>>

\* the records of a full queue that add_to_queue gives up on: only
\* CMASalesImporter's put has a timeout ("except Full: logger.error")
Rejected(n) == IF simporter = "cma_sales" THEN 0..n ELSE {0}

\* The work item ends.  The workers catch every exception of the API call
\* and return a record count (0 after a failure; CMAImporter: the processed
\* record or None).  process_single_api_call hands its records to
\* add_to_queue and returns len(processed_data), whatever add_to_queue did
\* with them; CMAImporter's worker enqueues nothing itself.
\* _process_with_semaphore and _api_worker release the permit in their
\* finally block.
_process_with_semaphore(t) ==
  /\ stask[t] = "running"
  /\ stask' = [stask EXCEPT ![t] = "ended"]
  /\ \E n \in 0..SubRecs :
       /\ api_failed[t] => n = 0
       /\ task_return' = [task_return EXCEPT ![t] = n]
       /\ \E lost \in Rejected(n) :
            records_put' = IF simporter = "cma" THEN records_put
                           ELSE records_put + (n - lost)
  /\ IF simporter \in {"cma_sales", "cma"}
       THEN /\ task_semaphore' = task_semaphore + 1
            /\ permit_held' = [permit_held EXCEPT ![t] = FALSE]
            /\ releases' = [releases EXCEPT ![t] = @ + 1]
       ELSE UNCHANGED <<task_semaphore, permit_held, releases>>
  /\ UNCHANGED <<simporter, api_failed, tally, successful_tasks, failed_tasks,
                 sphase, batch_start, sub_next, submits, executions,
                 total_records_processed, nonSubVars>>

\* what follows the last result of a batch: the next batch, or the end of the
\* submission loop
AfterBatch(left) ==
  IF left # {} THEN <<sphase, batch_start>>
  ELSE IF NextBatchStart(batch_start) <= NumSubTasks
    THEN <<"submitting", NextBatchStart(batch_start)>>
    ELSE <<"closing", batch_start>>

\* The orchestrator takes one result.  CMASalesImporter: future.result(
\* timeout=30) in submission order, a returned count adds to successful_tasks
\* and total_records_processed, TimeoutError or another exception to
\* failed_tasks.  TransactionsAvgImporter: as_completed(futures),
\* future.result().  CMAImporter: as_completed(futures), the orchestrator puts
\* the result on the queue itself and keeps no tally of the tasks.
FutureResult(t) ==
  /\ sphase = "collecting"
  /\ t \in SubBatch
  /\ tally[t] = "none"
  /\ IF simporter = "cma_sales"
       THEN t = Least({u \in SubBatch : tally[u] = "none"})
       ELSE stask[t] = "ended"
  /\ IF simporter = "cma"
       THEN /\ tally' = [tally EXCEPT ![t] = "collected"]
            /\ records_put' = records_put + task_return[t]
            /\ total_records_processed' = total_records_processed + task_return[t]
            /\ UNCHANGED <<successful_tasks, failed_tasks>>
       ELSE IF stask[t] = "ended"
         THEN /\ successful_tasks' = successful_tasks + 1
              /\ total_records_processed' = total_records_processed + task_return[t]
              /\ tally' = [tally EXCEPT ![t] = "succeeded"]
              /\ UNCHANGED <<failed_tasks, records_put>>
         ELSE /\ failed_tasks' = failed_tasks + 1
              /\ tally' = [tally EXCEPT ![t] = "failed"]
              /\ UNCHANGED <<successful_tasks, total_records_processed, records_put>>
  /\ LET after == AfterBatch({u \in SubBatch : tally[u] = "none"} \ {t})
     IN /\ sphase' = after[1]
        /\ batch_start' = after[2]
        /\ sub_next' = IF after[1] = "submitting" THEN after[2] ELSE sub_next
  /\ UNCHANGED <<simporter, stask, api_failed, task_semaphore, permit_held,
                 releases, submits, executions, task_return, nonSubVars>>

\* the end of "with ThreadPoolExecutor(...)": shutdown(wait=True) returns when
\* every submitted work item has ended
ExecutorShutdown ==
  /\ sphase = "closing"
  /\ InFlight = {}
  /\ sphase' = "done"
  /\ UNCHANGED <<simporter, stask, api_failed, task_semaphore, permit_held,
                 releases, tally, successful_tasks, failed_tasks, batch_start,
                 sub_next, submits, executions, task_return, records_put,
                 total_records_processed, nonSubVars>>

NextSub ==
  \/ SubmitTask
  \/ \E t \in SubTasks : process_single_api_call(t)
  \/ \E t \in SubTasks : _process_with_semaphore(t)
  \/ \E t \in SubTasks : FutureResult(t)
  \/ ExecutorShutdown

InitSubRun == InitSub /\ PipeIdle /\ UpsertIdle /\ ResumeIdle /\ GenIdle
  /\ RateIdle /\ GateIdle /\ PageIdle /\ RunIdle /\ PoolIdle /\ CountIdle
  /\ ApiIdle /\ MasterIdle

SpecSub == InitSubRun /\ [][NextSub]_vars

\* C22: every work item whose API call fails is counted in the failed tally
\* and not in the succeeded tally (and the worker goes on to the next item).
C22_FailedItemCountedFailed ==
  \A t \in SubTasks : (api_failed[t] /\ tally[t] # "none") => tally[t] = "failed"


\* C27: the work items submitted to the fetch pool and not yet completed never
\* outnumber the admission semaphore's size; a work item holds its permit
\* until it ends and gives it back exactly once, so the semaphore is back at
\* its initial value at run end.
C27_PermitHeldUntilTaskEnds ==
  /\ Cardinality(InFlight) <= SemSize
  /\ \A t \in InFlight : permit_held[t]
  /\ \A t \in SubTasks : stask[t] = "ended" => (releases[t] = 1 /\ ~permit_held[t])
  /\ sphase = "done" => task_semaphore = SemSize


\* ======================================================================
\* A whole run: OptimizedTransactionRentImporter.
\* process_optimized_transaction_rent_batch (import_transaction_rent.py), and
\* the dry-run exits of CMASalesImporter.process_cma_sales and
\* CMAImporter.process_cma.  The runs of the two CMA importers without
\* dry_run are the subject of the pipeline specification.
RunRecs == 1
MaxAccumulated == 2

RunInputs ==
  ({"transaction_rent"} \X BOOLEAN) \cup ({"cma_sales", "cma"} \X {TRUE})

InitRun ==
  /\ \E in \in RunInputs : run_importer = in[1] /\ run_dry_run = in[2]
  /\ run_phase = IF run_importer = "transaction_rent" THEN "collecting" ELSE "start"
  /\ run_item = [b \in RunItems |-> "pending"]
  /\ all_accumulated_data = 0
  /\ run_stored = 0
  /\ run_writes = 0
  /\ run_transformed = {}
  /\ total_successful_requests = 0
  /\ total_failed_requests = 0

\* "if dry_run: ... return" of process_cma_sales (before the properties are
\* read) and of process_cma (after the task list is built)
DryRunReturn ==
  /\ run_phase = "start"
  /\ run_dry_run
  /\ run_phase' = "returned"
  /\ UNCHANGED <<run_importer, run_dry_run, run_item, all_accumulated_data,
                 run_stored, run_writes, run_transformed,
                 total_successful_requests, total_failed_requests, nonRunVars>>

\* the records a work item adds to the accumulator: _fetch_location_data
\* transforms the answer only "if not self.config.dry_run"
Transformed(outcome) == outcome = "ok" /\ ~run_dry_run

AllCollected(items) == \A b \in RunItems : items[b] # "pending"

\* One pass of "for future in as_completed(future_to_batch)": the batch's
\* result is tallied and accumulated, and at max_accumulated_records the
\* accumulator is inserted; an exception of the future or of the insert is
\* caught by the loop's except branch.
CollectBatch(b) ==
  /\ run_phase = "collecting"
  /\ run_item[b] = "pending"
  /\ \E outcome \in {"ok", "failed", "raised"}, insert_ok \in BOOLEAN :
       LET acc == all_accumulated_data + IF Transformed(outcome) THEN RunRecs ELSE 0
           inserts == outcome # "raised" /\ acc >= MaxAccumulated /\ ~run_dry_run
       IN /\ run_item' = [run_item EXCEPT ![b] = outcome]
          /\ run_transformed' = IF Transformed(outcome) THEN run_transformed \cup {b}
                                ELSE run_transformed
          /\ total_successful_requests' =
               total_successful_requests + IF outcome = "ok" THEN 1 ELSE 0
          /\ total_failed_requests' = total_failed_requests
               + (IF outcome \in {"failed", "raised"} THEN 1 ELSE 0)
               + (IF inserts /\ ~insert_ok THEN 1 ELSE 0)
          /\ run_writes' = run_writes + IF inserts THEN 1 ELSE 0
          /\ IF inserts /\ insert_ok
               THEN run_stored' = run_stored + acc /\ all_accumulated_data' = 0
               ELSE UNCHANGED run_stored /\ all_accumulated_data' = acc
          /\ (inserts \/ insert_ok)
          /\ run_phase' = IF AllCollected(run_item') THEN "final_insert"
                          ELSE "collecting"
  /\ UNCHANGED <<run_importer, run_dry_run, nonRunVars>>

\* "if all_accumulated_data and not self.config.dry_run:
\* db.insert_transaction_raw_rent_data(all_accumulated_data)", outside any try:
\* an exception of the insert leaves process_optimized_transaction_rent_batch
FinalInsert ==
  /\ run_phase = "final_insert"
  /\ IF all_accumulated_data > 0 /\ ~run_dry_run
       THEN /\ run_writes' = run_writes + 1
            /\ \/ /\ run_stored' = run_stored + all_accumulated_data
                  /\ run_phase' = "report"
               \/ /\ UNCHANGED run_stored
                  /\ run_phase' = "aborted"
       ELSE /\ run_phase' = "report"
            /\ UNCHANGED <<run_stored, run_writes>>
  /\ UNCHANGED <<run_importer, run_dry_run, run_item, all_accumulated_data,
                 run_transformed, total_successful_requests,
                 total_failed_requests, nonRunVars>>

\* the final summary
RunReport ==
  /\ run_phase = "report"
  /\ run_phase' = "done"
  /\ UNCHANGED <<run_importer, run_dry_run, run_item, all_accumulated_data,
                 run_stored, run_writes, run_transformed,
                 total_successful_requests, total_failed_requests, nonRunVars>>

NextRun ==
  \/ DryRunReturn
  \/ \E b \in RunItems : CollectBatch(b)
  \/ FinalInsert
  \/ RunReport

InitRunRun == InitRun /\ PipeIdle /\ UpsertIdle /\ ResumeIdle /\ GenIdle
  /\ RateIdle /\ GateIdle /\ PageIdle /\ SubIdle /\ PoolIdle /\ CountIdle
  /\ ApiIdle /\ MasterIdle

SpecRun == InitRunRun /\ [][NextRun]_vars

\* C23: the failure of a single work item or of a single batch flush never
\* aborts the run: the run goes on to its final report.
C23_FailureNeverAborts == run_phase # "aborted"


\* C24: in dry-run mode the run still fetches and transforms every work item
\* but writes nothing to the destination store.
C24_DryRunFetchesWithoutWriting ==
  (run_dry_run /\ run_phase \in {"done", "returned"}) =>
    /\ \A b \in RunItems : run_item[b] # "pending"
    /\ \A b \in RunItems : run_item[b] = "ok" => b \in run_transformed
    /\ run_stored = 0
    /\ run_writes = 0


\* ======================================================================
\* DatabaseManager.get_connection / return_connection (utils/database.py,
\* "src Views"/database.py) and the operations that use them.
max_retries == 3
InitialRetryDelay == 1
PoolMaxconn == 1
MaxDbOps == 3

\* how an operation holds its connection: "finally" is
\* "conn = self.get_connection() ... finally: self.return_connection(conn)"
\* (insert_cma_sales_data, _bulk_insert_with_copy); "with" is
\* "with self.get_connection() as conn" (insert_transactions_avg_data,
\* _bulk_insert_with_copy_optimized)
OperationStyles == {"finally", "with"}

InitPool ==
  /\ checked_out = 0
  /\ direct_open = 0
  /\ dpc = [c \in DbClients |-> "idle"]
  /\ dstyle = [c \in DbClients |-> "finally"]
  /\ attempt = [c \in DbClients |-> 0]
  /\ retry_delay = [c \in DbClients |-> 0]
  /\ dconn = [c \in DbClients |-> "none"]
  /\ dcall = [c \in DbClients |-> NoCallYet]
  /\ db_ops = 0

\* a destination operation starts and calls get_connection
BeginOperation(c) ==
  /\ dpc[c] = "idle"
  /\ db_ops < MaxDbOps
  /\ db_ops' = db_ops + 1
  /\ \E style \in OperationStyles : dstyle' = [dstyle EXCEPT ![c] = style]
  /\ dpc' = [dpc EXCEPT ![c] = "getting"]
  /\ attempt' = [attempt EXCEPT ![c] = 0]
  /\ retry_delay' = [retry_delay EXCEPT ![c] = InitialRetryDelay]
  /\ dcall' = [dcall EXCEPT ![c] = NoCallYet]
  /\ UNCHANGED <<checked_out, direct_open, dconn, nonPoolVars>>

IsLastAttempt_Never(a) == FALSE

\* the else branch of "if attempt < max_retries - 1"
IsLastAttempt(a) == ~(a < max_retries - 1)

\* One pass of get_connection's "for attempt in range(max_retries)":
\* pool.getconn() returns a connection, or raises (always when every
\* connection of the pool is checked out); after a failure the pass sleeps
\* retry_delay and doubles it, and the last pass falls back to
\* psycopg2.connect, which returns a connection or raises.  A loop that runs
\* out returns None.
get_connection(c) ==
  /\ dpc[c] = "getting"
  /\ \E got \in BOOLEAN, direct \in BOOLEAN :
       /\ checked_out >= PoolMaxconn => ~got
       /\ got => direct
       /\ (~got /\ ~IsLastAttempt(attempt[c])) => direct
       /\ LET tried == [dcall[c] EXCEPT !.attempts = @ + 1] IN
          IF got
            THEN /\ checked_out' = checked_out + 1
                 /\ dconn' = [dconn EXCEPT ![c] = "pooled"]
                 /\ dpc' = [dpc EXCEPT ![c] = "using"]
                 /\ dcall' = [dcall EXCEPT ![c] = [tried EXCEPT !.result = "pooled"]]
                 /\ UNCHANGED <<direct_open, attempt, retry_delay>>
            ELSE IF IsLastAttempt(attempt[c])
              THEN /\ IF direct
                        THEN /\ direct_open' = direct_open + 1
                             /\ dconn' = [dconn EXCEPT ![c] = "direct"]
                             /\ dpc' = [dpc EXCEPT ![c] = "using"]
                             /\ dcall' = [dcall EXCEPT ![c] =
                                            [tried EXCEPT !.result = "direct"]]
                        ELSE /\ dpc' = [dpc EXCEPT ![c] = "idle"]
                             /\ dcall' = [dcall EXCEPT ![c] =
                                            [tried EXCEPT !.result = "raised"]]
                             /\ UNCHANGED <<direct_open, dconn>>
                   /\ UNCHANGED <<checked_out, attempt, retry_delay>>
              ELSE /\ attempt' = [attempt EXCEPT ![c] = @ + 1]
                   /\ retry_delay' = [retry_delay EXCEPT ![c] = @ * 2]
                   /\ IF attempt[c] + 1 < max_retries
                        THEN /\ dcall' = [dcall EXCEPT ![c] = [tried EXCEPT
                                            !.backoffs = Append(@, retry_delay[c])]]
                             /\ UNCHANGED dpc
                        ELSE /\ dcall' = [dcall EXCEPT ![c] = [tried EXCEPT
                                            !.backoffs = Append(@, retry_delay[c]),
                                            !.result = "none"]]
                             /\ dpc' = [dpc EXCEPT ![c] = "idle"]
                   /\ UNCHANGED <<checked_out, direct_open, dconn>>
  /\ UNCHANGED <<dstyle, db_ops, nonPoolVars>>

\* The operation ends, with or without an exception.  return_connection puts
\* a pooled connection back and closes a direct one (putconn refuses it);
\* leaving "with conn" commits or rolls back and neither closes the
\* connection nor returns it.
EndOperation(c) ==
  /\ dpc[c] = "using"
  /\ dpc' = [dpc EXCEPT ![c] = "idle"]
  /\ dconn' = [dconn EXCEPT ![c] = "none"]
  /\ IF dstyle[c] = "finally"
       THEN IF dconn[c] = "pooled"
              THEN checked_out' = checked_out - 1 /\ UNCHANGED direct_open
              ELSE direct_open' = direct_open - 1 /\ UNCHANGED checked_out
       ELSE UNCHANGED <<checked_out, direct_open>>
  /\ UNCHANGED <<dstyle, attempt, retry_delay, dcall, db_ops, nonPoolVars>>

NextPool ==
  \/ \E c \in DbClients : BeginOperation(c)
  \/ \E c \in DbClients : get_connection(c)
  \/ \E c \in DbClients : EndOperation(c)

InitPoolRun == InitPool /\ PipeIdle /\ UpsertIdle /\ ResumeIdle /\ GenIdle
  /\ RateIdle /\ GateIdle /\ PageIdle /\ SubIdle /\ RunIdle /\ CountIdle
  /\ ApiIdle /\ MasterIdle

SpecPool == InitPoolRun /\ [][NextPool]_vars

\* C25: every connection checked out of the pool for a destination operation
\* is back in the pool when the operation has ended, on success and on
\* failure: with no operation in progress no connection is checked out.
C25_ConnectionsReturned ==
  (\A c \in DbClients : dpc[c] = "idle") => checked_out = 0


\* the sleeps of a get_connection call that has failed n times before its
\* last pass: 1 s, 2 s, ... doubling
RECURSIVE Doubling(_)
Doubling(n) == IF n = 0 THEN <<>> ELSE Append(Doubling(n - 1), 2 ^ (n - 1))

\* C26: a get_connection call makes at most 3 attempts at the pool, sleeps
\* 1 s, then 2 s between them, falls back to a direct connection only after
\* the third failed attempt, and ends by returning a connection (pooled or
\* direct) or by raising, never by returning nothing.
C26_RetryThenDirectFallback ==
  \A c \in DbClients :
    /\ dcall[c].attempts <= max_retries
    /\ dcall[c].result = "pending" =>
         dcall[c].backoffs = Doubling(dcall[c].attempts)
    /\ dcall[c].result # "pending" =>
         /\ dcall[c].result \in {"pooled", "direct", "raised"}
         /\ dcall[c].backoffs = Doubling(dcall[c].attempts - 1)
         /\ dcall[c].result \in {"direct", "raised"} =>
              dcall[c].attempts = max_retries
    /\ dpc[c] = "using" =>
         dcall[c].result \in {"pooled", "direct"} /\ dconn[c] = dcall[c].result

\* a call that found the pool exhausted three times and returned a direct
\* connection after sleeping 1 s and 2 s
C26_Witness ==
  \E c \in DbClients :
    /\ dcall[c] = [attempts |-> 3, backoffs |-> <<1, 2>>, result |-> "direct"]
    /\ dconn[c] = "direct"
    /\ checked_out = PoolMaxconn


\* ======================================================================
\* The shared counters total_records_inserted and total_batches_flushed:
\* every flusher thread updates them in _flush_buffer (import_cma_sales.py)
\* or _flush_batch_to_db (import_transactions_avg.py) with "+=" and without
\* a lock, so the read and the write of one "+=" are separate steps that
\* other flushers may interleave with.
MaxFlushes == 3
BufferLens == {1, 2}

InitCount ==
  /\ counters = NoTotals
  /\ cpc = [f \in CountFlushers |-> "idle"]
  /\ clen = [f \in CountFlushers |-> 0]
  /\ cloaded = [f \in CountFlushers |-> 0]
  /\ true_totals = NoTotals
  /\ cflushes = 0
  /\ reported = <<>>

\* _flush_batch_to_db (_flush_buffer) up to the counters: the insert succeeds, or raises and
\* leaves the counters alone
_flush_batch_to_db(f) ==
  /\ reported = <<>>
  /\ cpc[f] = "idle"
  /\ cflushes < MaxFlushes
  /\ cflushes' = cflushes + 1
  /\ \E n \in BufferLens, inserted \in BOOLEAN :
       /\ clen' = [clen EXCEPT ![f] = n]
       /\ IF inserted
            THEN /\ cpc' = [cpc EXCEPT ![f] = "read_records"]
                 /\ true_totals' = [total_records_inserted |->
                                      true_totals.total_records_inserted + n,
                                    total_batches_flushed |->
                                      true_totals.total_batches_flushed + 1]
            ELSE UNCHANGED <<cpc, true_totals>>
  /\ UNCHANGED <<counters, cloaded, reported, nonCountVars>>

\* self.total_records_inserted += len(buffer): the read ...
ReadRecords(f) ==
  /\ cpc[f] = "read_records"
  /\ cloaded' = [cloaded EXCEPT ![f] = counters.total_records_inserted]
  /\ cpc' = [cpc EXCEPT ![f] = "write_records"]
  /\ UNCHANGED <<counters, clen, true_totals, cflushes, reported, nonCountVars>>

\* ... and the write
WriteRecords(f) ==
  /\ cpc[f] = "write_records"
  /\ counters' = [counters EXCEPT !.total_records_inserted = cloaded[f] + clen[f]]
  /\ cpc' = [cpc EXCEPT ![f] = "read_batches"]
  /\ UNCHANGED <<clen, cloaded, true_totals, cflushes, reported, nonCountVars>>

\* self.total_batches_flushed += 1: the read ...
ReadBatches(f) ==
  /\ cpc[f] = "read_batches"
  /\ cloaded' = [cloaded EXCEPT ![f] = counters.total_batches_flushed]
  /\ cpc' = [cpc EXCEPT ![f] = "write_batches"]
  /\ UNCHANGED <<counters, clen, true_totals, cflushes, reported, nonCountVars>>

\* ... and the write
WriteBatches(f) ==
  /\ cpc[f] = "write_batches"
  /\ counters' = [counters EXCEPT !.total_batches_flushed = cloaded[f] + 1]
  /\ cpc' = [cpc EXCEPT ![f] = "idle"]
  /\ UNCHANGED <<clen, cloaded, true_totals, cflushes, reported, nonCountVars>>

\* the orchestrator's final report, after the flushers have stopped
FinalReport ==
  /\ reported = <<>>
  /\ \A f \in CountFlushers : cpc[f] = "idle"
  /\ reported' = <<counters>>
  /\ UNCHANGED <<counters, cpc, clen, cloaded, true_totals, cflushes, nonCountVars>>

NextCount ==
  \/ \E f \in CountFlushers : _flush_batch_to_db(f)
  \/ \E f \in CountFlushers : ReadRecords(f)
  \/ \E f \in CountFlushers : WriteRecords(f)
  \/ \E f \in CountFlushers : ReadBatches(f)
  \/ \E f \in CountFlushers : WriteBatches(f)
  \/ FinalReport

InitCountRun == InitCount /\ PipeIdle /\ UpsertIdle /\ ResumeIdle /\ GenIdle
  /\ RateIdle /\ GateIdle /\ PageIdle /\ SubIdle /\ RunIdle /\ PoolIdle
  /\ ApiIdle /\ MasterIdle

SpecCount == InitCountRun /\ [][NextCount]_vars

\* C28: at run end the shared counters equal the true totals:
\* total_records_inserted is the sum of the sizes of the successfully flushed
\* batches and total_batches_flushed is their number.
C28_CountersEqualTrueTotals ==
  reported # <<>> => reported[1] = true_totals


\* ======================================================================
\* A run-level interrupt (Ctrl-C) of process_cma_sales /
\* process_transactions_avg.  KeyboardInterrupt is raised in the main thread
\* while it submits work or waits for results; it is not an Exception, so
\* the "except Exception: self.stop_flusher_threads(); raise" of the run
\* does not handle it.  Leaving the "with ThreadPoolExecutor" block waits
\* for the tasks that run; the interrupt then reaches main, which logs it
\* (import_transactions_avg.py) or lets it end the process
\* (import_cma_sales.py).
KeyboardInterrupt ==
  /\ importer \in {"cma_sales", "transactions_avg"}
  /\ opc = "fetching"
  /\ opc' = "interrupted"
  /\ UNCHANGED <<importer, data_queue, task, flusherVars, processing_complete,
                 pill_attempts, pills_sent, counterVars, dropped_enqueue,
                 dropped_requeue, nonPipeVars>>

\* The process exits once the executor has shut down.  The flusher threads
\* are daemon threads (daemon=True): they end with the process, wherever
\* they are.
ProcessExit ==
  /\ opc = "interrupted"
  /\ Running = {}
  /\ opc' = "exited"
  /\ fpc' = [f \in Flushers |-> "killed"]
  /\ UNCHANGED <<importer, data_queue, task, buffer, fafter, chunks, unflushed,
                 got_pill, exit_flush, processing_complete, pill_attempts,
                 pills_sent, counterVars, dropped_enqueue, dropped_requeue,
                 nonPipeVars>>

NextPipeInterrupt ==
  \/ NextPipe
  \/ KeyboardInterrupt
  \/ ProcessExit

SpecPipeInterrupt == InitPipeRun /\ [][NextPipeInterrupt]_vars

\* C29: when the process has exited after a run-level interrupt, no work
\* item is in progress (none was started after the interrupt), the
\* orchestrator has sent every flusher its shutdown signal, and no record is
\* left in the queue or in a flusher's buffer without a flush attempt.
C29_InterruptDrainsBeforeExit ==
  opc = "exited" =>
    /\ \A t \in Tasks : task[t].pc # "running"
    /\ pills_sent = NumFlushers
    /\ QueueRecords = {}
    /\ \A f \in Flushers : unflushed[f] = 0


\* ======================================================================
\* ReidinAPIClient.get (utils/api_client.py): the retry loop around
\* session.get.
MaxRetriesArg == 3
MaxApiCalls == 2
ApiRetryDelay == 2

\* what one session.get / raise_for_status / json pass can do: answer 200,
\* answer with an error status, or raise without an answer (timeout,
\* connection error)
AttemptOutcomes == {"200", "429", "400", "404", "timeout"}

InitApi ==
  /\ api_max_retries = 0
  /\ api_attempt = 0
  /\ response = "unbound"
  /\ api_pc = "idle"
  /\ api_log = <<>>
  /\ api_calls = 0

\* get(endpoint, params, max_retries, retry_delay) is called
CallGet ==
  /\ api_pc # "calling"
  /\ api_calls < MaxApiCalls
  /\ api_calls' = api_calls + 1
  /\ \E n \in 0..MaxRetriesArg : api_max_retries' = n
  /\ api_attempt' = 0
  /\ response' = "unbound"
  /\ api_pc' = "calling"
  /\ api_log' = <<>>
  /\ UNCHANGED nonApiVars

\* "response" in locals() and response.status_code == 429
Is429(resp) == resp = "429"

\* One pass of "for attempt in range(max_retries + 1)".  session.get either
\* returns an answer, which is bound to "response", or raises and leaves
\* "response" as the previous pass bound it.  The handler retries when
\* response.status_code is 429 and attempt < max_retries, after sleeping
\* retry_delay * 2 ** attempt, and raises otherwise.
get ==
  /\ api_pc = "calling"
  /\ \E outcome \in AttemptOutcomes :
       LET resp == IF outcome = "timeout" THEN response ELSE outcome IN
       /\ response' = resp
       /\ IF outcome = "200"
            THEN /\ api_pc' = "returned"
                 /\ api_log' = Append(api_log, [outcome |-> outcome, wait |-> 0])
                 /\ UNCHANGED api_attempt
            ELSE IF Is429(resp) /\ api_attempt < api_max_retries
              THEN /\ api_log' = Append(api_log,
                        [outcome |-> outcome, wait |-> ApiRetryDelay * 2 ^ api_attempt])
                   /\ api_attempt' = api_attempt + 1
                   /\ UNCHANGED api_pc
              ELSE /\ api_pc' = "raised"
                   /\ api_log' = Append(api_log, [outcome |-> outcome, wait |-> 0])
                   /\ UNCHANGED api_attempt
  /\ UNCHANGED <<api_max_retries, api_calls, nonApiVars>>

NextApi ==
  \/ CallGet
  \/ get

InitApiRun == InitApi /\ PipeIdle /\ UpsertIdle /\ ResumeIdle /\ GenIdle
  /\ RateIdle /\ GateIdle /\ PageIdle /\ SubIdle /\ RunIdle /\ PoolIdle
  /\ CountIdle /\ MasterIdle

SpecApi == InitApiRun /\ [][NextApi]_vars

\* C30: an attempt answered with 429 is retried after a wait of
\* retry_delay * 2 ** attempt while fewer than max_retries retries were made,
\* the call makes at most max_retries + 1 attempts and fails when the last
\* of them is answered with 429; an attempt that fails in any other way
\* (400, another 4xx, a timeout) ends the call with the failure and is not
\* retried.
C30_Only429Retried ==
  /\ Len(api_log) <= api_max_retries + 1
  /\ \A i \in 1..Len(api_log) :
       /\ api_log[i].outcome = "429" =>
            IF i <= api_max_retries
              THEN api_log[i].wait = ApiRetryDelay * 2 ^ (i - 1)
              ELSE i = Len(api_log) /\ api_pc = "raised"
       /\ api_log[i].outcome \in {"400", "404", "timeout"} =>
            i = Len(api_log) /\ api_pc = "raised"
       /\ api_log[i].outcome = "200" =>
            i = Len(api_log) /\ api_pc = "returned"


\* C31: every work item is submitted to the fetch pool exactly once per run
\* and executed by exactly one fetch worker: none is submitted or executed
\* twice, and at the end of the run none is left unsubmitted or unexecuted.
C31_SubmittedAndExecutedOnce ==
  /\ \A t \in SubTasks : submits[t] <= 1 /\ executions[t] <= submits[t]
  /\ sphase = "done" => \A t \in SubTasks : submits[t] = 1 /\ executions[t] = 1

\* a finished run of several batches in which a result wait timed out
C31_Witness ==
  /\ sphase = "done"
  /\ simporter = "cma_sales"
  /\ \A t \in SubTasks : executions[t] = 1
  /\ \E t \in SubTasks : tally[t] = "failed"

\* C37: at the end of process_cma_sales successful_tasks + failed_tasks is
\* the number of tasks, and the reported total of records processed is the
\* number of records the fetch workers put on the queue.
C37_TalliesMatchWork ==
  (sphase = "done" /\ simporter = "cma_sales") =>
    /\ successful_tasks + failed_tasks = NumSubTasks
    /\ total_records_processed = records_put


\* the number of rows of a table
RECURSIVE CountRows(_, _)
CountRows(t, S) ==
  IF S = {} THEN 0
  ELSE LET x == CHOOSE y \in S : TRUE IN t[x] + CountRows(t, S \ {x})

\* the persisted rows that have the key of r
Persisted(t, r) == {x \in Record : t[x] > 0 /\ KeyOf(x) = KeyOf(r)}

\* C32: an upsert with conflict-update semantics of a batch of N records
\* with pairwise distinct keys, exactly one of which has the key of an
\* already persisted row, adds exactly N - 1 rows and leaves one row with
\* that key, holding the batch's values.
C32_UpsertOneCollision ==
  [][(/\ entity = "transactions_avg"
      /\ pass' = pass
      /\ todo' # todo
      /\ \A x, y \in todo \ todo' : KeyOf(x) = KeyOf(y) => x = y
      /\ Cardinality({r \in todo \ todo' : Persisted(table, r) # {}}) = 1)
     => (/\ CountRows(table', Record) = CountRows(table, Record)
                                         + Cardinality(todo \ todo') - 1
         /\ \A r \in todo \ todo' :
              Persisted(table, r) # {} => Persisted(table', r) = {r})]_vars


\* C33: a flush worker that re-queues a chunk of a failed batch is never
\* blocked: its put either succeeds or, when the queue is full, gives up after
\* the timeout, and every step it can then take drops the chunk and counts
\* its records as dropped.
C33_RequeueNeverBlocks ==
  \A f \in Flushers :
    fpc[f] = "requeue" =>
      /\ ENABLED RequeueChunk(f)
      /\ QueueFull(data_queue) =>
           ~ENABLED (/\ RequeueChunk(f)
                     /\ ~(/\ dropped_requeue' = dropped_requeue + Len(Head(chunks[f]))
                          /\ data_queue' = data_queue
                          /\ chunks'[f] = Tail(chunks[f])))

\* a chunk was dropped on re-queue while the queue was at capacity
C33_Witness ==
  /\ importer = "cma_sales"
  /\ dropped_requeue > 0
  /\ Len(data_queue) = QueueMaxsize


\* C34: when every flush worker has exited, the ingestion queue holds no
\* data record.
C34_NoRecordLeftInQueue ==
  (\A f \in Flushers : fpc[f] = "done") => QueueRecords = {}


\* The shutdown under fair scheduling: every flusher thread keeps running its
\* loop and the orchestrator keeps running stop_flusher_threads.
SpecPipeShutdownFair ==
  /\ InitPipeLastTaskRun
  /\ [][NextPipe]_vars
  /\ FlusherFairness
  /\ WF_vars(stop_flusher_threads)

\* C35: once the orchestrator has started the shutdown protocol, every flush
\* worker eventually terminates.
C35_FlushersTerminate ==
  (opc = "pills") ~> (\A f \in Flushers : fpc[f] = "done")


ThrottleRateAtLeast2Percent ==
  50 * adj_stats.e429 >= Max(adj_stats.total, 1)

\* the timeout rate the last adjustment computed is at most 5%
TimeoutRateAtMost5Percent ==
  20 * adj_stats.timeouts <= Max(adj_stats.successes + adj_stats.timeouts, 1)

\* C38: an adjustment whose 429 rate is 2% or more never raises current_rate,
\* and an adjustment that has 429 outcomes and a timeout rate of at most 5%
\* never lowers it.
C38_ThrottleOnlyBlocksIncrease ==
  adjusts > 0 =>
    /\ ThrottleRateAtLeast2Percent => current_rate <= prev_rate
    /\ (adj_stats.e429 > 0 /\ TimeoutRateAtMost5Percent) =>
         current_rate >= prev_rate



\* ======================================================================
\* MasterImporter.import_all (import_all.py): the steps in the order of the
\* method body (the source numbers them 1-3 and 5-12).
MasterSteps ==
  <<"locations", "properties", "property_details", "indicators",
    "transactions_avg", "transaction_history", "transaction_rent",
    "transaction_sales", "cma_sales", "transactions_price",
    "transaction_list">>

MasterStepNames == {MasterSteps[i] : i \in DOMAIN MasterSteps}

\* import_all is called with any dry_run and any skip_* flags
InitMaster ==
  /\ m_dry_run \in BOOLEAN
  /\ m_skip \in [MasterStepNames -> BOOLEAN]
  /\ m_pc = 1
  /\ m_phase = "running"
  /\ m_started = <<>>
  /\ m_failed = {}
  /\ m_logged = {}

CurrentStep == MasterSteps[m_pc]

\* 'if not dry_run: ... return' exists in the handler of the location step
\* only
CannotContinue_AnyStep(step, dry) == ~dry
CannotContinue(step, dry) == step = "locations" /\ ~dry

\* 'else: logger.info("Skipping ... as requested")'
SkipStep ==
  /\ m_phase = "running"
  /\ m_pc <= Len(MasterSteps)
  /\ m_skip[CurrentStep]
  /\ m_pc' = m_pc + 1
  /\ UNCHANGED <<m_dry_run, m_skip, m_phase, m_started, m_failed, m_logged,
                 nonMasterVars>>

\* the importer of the step is called and returns
StepSucceeds ==
  /\ m_phase = "running"
  /\ m_pc <= Len(MasterSteps)
  /\ ~m_skip[CurrentStep]
  /\ m_started' = Append(m_started, CurrentStep)
  /\ m_pc' = m_pc + 1
  /\ UNCHANGED <<m_dry_run, m_skip, m_phase, m_failed, m_logged,
                 nonMasterVars>>

\* the importer of the step is called and raises an Exception:
\* 'except Exception as e: logger.error("... import failed: %s", e)'
StepFails ==
  /\ m_phase = "running"
  /\ m_pc <= Len(MasterSteps)
  /\ ~m_skip[CurrentStep]
  /\ m_started' = Append(m_started, CurrentStep)
  /\ m_failed' = m_failed \cup {CurrentStep}
  /\ m_logged' = m_logged \cup {CurrentStep}
  /\ IF CannotContinue(CurrentStep, m_dry_run)
       THEN m_phase' = "returned" /\ m_pc' = m_pc
       ELSE m_phase' = m_phase /\ m_pc' = m_pc + 1
  /\ UNCHANGED <<m_dry_run, m_skip, nonMasterVars>>

\* logger.info("=== Master import completed ===")
MasterCompleted ==
  /\ m_phase = "running"
  /\ m_pc = Len(MasterSteps) + 1
  /\ m_phase' = "completed"
  /\ UNCHANGED <<m_dry_run, m_skip, m_pc, m_started, m_failed, m_logged,
                 nonMasterVars>>

NextMaster ==
  \/ SkipStep
  \/ StepSucceeds
  \/ StepFails
  \/ MasterCompleted

InitMasterRun == InitMaster /\ PipeIdle /\ UpsertIdle /\ ResumeIdle /\ GenIdle
  /\ RateIdle /\ GateIdle /\ PageIdle /\ SubIdle /\ RunIdle /\ PoolIdle
  /\ CountIdle /\ ApiIdle

SpecMaster == InitMasterRun /\ [][NextMaster]_vars

\* the steps before position n that were not skipped, in the fixed order
NonSkippedBefore(n) ==
  SelectSeq(SubSeq(MasterSteps, 1, n - 1), LAMBDA s : ~m_skip[s])

\* C39: the steps are started in the fixed order with locations first; a
\* failed location step of a non-dry-run is the only thing that ends the
\* call early, and then no later step is started; every other failure is
\* logged and every later step that is not skipped is still started.
C39_FixedOrderLocationGate ==
  /\ m_failed \subseteq m_logged
  /\ m_phase = "returned" <=> ("locations" \in m_failed /\ ~m_dry_run)
  /\ m_phase = "returned" => m_started = <<"locations">>
  /\ m_phase \in {"running", "completed"} =>
       m_started = NonSkippedBefore(m_pc)
  /\ m_phase = "completed" => m_pc = Len(MasterSteps) + 1

\* a non-dry-run in which a step after locations failed, a step was skipped,
\* and the call still went through every later step
C39_Witness ==
  /\ m_phase = "completed"
  /\ ~m_dry_run
  /\ "properties" \in m_failed
  /\ m_skip["indicators"]
  /\ m_started[Len(m_started)] = "transaction_list"

====
